---- MODULE Spec2Model ----
(***************************************************************************)
(* Model of the OpsPilot / UnclogAI analysis pipeline:                     *)
(*   graph_builder.py  GraphBuilder      (graph + five metric groups)      *)
(*   detector.py       BottleneckDetector (six sub-detectors + sort)       *)
(*   forecaster.py     RiskForecaster    (six weighted factors)            *)
(*   recommender.py    RecommendationEngine                                *)
(*   graph.py          WorkflowState / WorkflowOrchestrator.run_workflow   *)
(*   storage.py        StorageManager.save_run / load_run                  *)
(*                                                                         *)
(* Numbers that the code holds in Python floats are exact rationals here   *)
(* (records [n, d] in lowest terms, d > 0).  Calendar dates are day        *)
(* numbers; a date field is [kind, day] with kind "none" (None), "bad" (a  *)
(* string strptime rejects) or "date".                                     *)
(***************************************************************************)
EXTENDS Integers, Sequences, FiniteSets, TLC

(***************************************************************************)
(* Bounds of the explored inputs.                                          *)
(***************************************************************************)
MaxTasks == 3
MaxBob == 4
MaxRunTasks == 2

(***************************************************************************)
(* Generic helpers.                                                        *)
(***************************************************************************)
Range(s) == {s[i] : i \in 1..Len(s)}

Abs(x) == IF x < 0 THEN -x ELSE x

RECURSIVE Gcd(_, _)
Gcd(a, b) == IF b = 0 THEN a ELSE Gcd(b, a % b)

\* the rational n/d in lowest terms with a positive denominator
R(n, d) ==
    LET s == IF d < 0 THEN -1 ELSE 1
        g == Gcd(Abs(n), Abs(d))
    IN  [n |-> (s * n) \div g, d |-> (s * d) \div g]

RInt(k) == [n |-> k, d |-> 1]
RZero == RInt(0)
ROne == RInt(1)
RAdd(a, b) == R(a.n * b.d + b.n * a.d, a.d * b.d)
RMul(a, b) == R(a.n * b.n, a.d * b.d)
RDiv(a, b) == R(a.n * b.d, a.d * b.n)
RLt(a, b) == a.n * b.d < b.n * a.d
RLe(a, b) == a.n * b.d <= b.n * a.d
RMin(a, b) == IF RLt(b, a) THEN b ELSE a
RMax(a, b) == IF RLt(a, b) THEN b ELSE a

RECURSIVE RSum(_)
RSum(s) == IF s = <<>> THEN RZero ELSE RAdd(Head(s), RSum(Tail(s)))

\* Python max(values) of a non-empty sequence of rationals
RECURSIVE RMaxSeq(_)
RMaxSeq(s) == IF Len(s) = 1 THEN s[1] ELSE RMax(s[1], RMaxSeq(Tail(s)))

RECURSIVE IMaxSeq(_)
IMaxSeq(s) ==
    IF Len(s) = 1 THEN s[1]
    ELSE LET m == IMaxSeq(Tail(s)) IN IF s[1] >= m THEN s[1] ELSE m

RECURSIVE ISum(_)
ISum(s) == IF s = <<>> THEN 0 ELSE Head(s) + ISum(Tail(s))

\* the keys of a dict in insertion order: first occurrences of s
RECURSIVE Uniq(_)
Uniq(s) ==
    IF s = <<>> THEN <<>>
    ELSE LET u == Uniq(SubSeq(s, 1, Len(s) - 1))
             x == s[Len(s)]
         IN  IF x \in Range(u) THEN u ELSE Append(u, x)

\* all orders in which the elements of a set can be listed
RECURSIVE Perms(_)
Perms(S) ==
    IF S = {} THEN {<<>>}
    ELSE UNION {{<<x>> \o p : p \in Perms(S \ {x})} : x \in S}

\* s[:n]
FirstN(s, n) == SubSeq(s, 1, IF Len(s) < n THEN Len(s) ELSE n)

(***************************************************************************)
(* Task records (ingest.py _parse_row) and dates.                          *)
(***************************************************************************)
NoDate == [kind |-> "none", day |-> 0]
BadDate == [kind |-> "bad", day |-> 0]
Date(d) == [kind |-> "date", day |-> d]

Task(id, owner, status, priority, effort, start, due, deps) ==
    [task_id |-> id, title |-> <<"title", id>>, owner |-> owner,
     status |-> status, priority |-> priority, effort |-> effort,
     start_date |-> start, due_date |-> due, dependency_ids |-> deps,
     notes |-> ""]

\* {row['task_id']: row for row in rows}: a later row replaces an earlier one
task_lookup(rows) ==
    [id \in {rows[i].task_id : i \in 1..Len(rows)} |->
        rows[CHOOSE i \in 1..Len(rows) :
                /\ rows[i].task_id = id
                /\ \A j \in (i + 1)..Len(rows) : rows[j].task_id # id]]

\* the values of that dict, in the insertion order of its keys
lookup_values(rows) ==
    LET ids == Uniq([i \in 1..Len(rows) |-> rows[i].task_id])
        tl == task_lookup(rows)
    IN  [i \in 1..Len(ids) |-> tl[ids[i]]]

(***************************************************************************)
(* GraphBuilder.build_graph.  A graph is [built, nodes, edges]: nodes in   *)
(* insertion order, edges as pairs <<u, v>> for u -> v.                    *)
(***************************************************************************)
NoGraph == [built |-> FALSE, nodes |-> <<>>, edges |-> {}]

build_graph(rows) ==
    LET nodes == Uniq([i \in 1..Len(rows) |-> rows[i].task_id])
        EdgesOf(row) ==
            {<<row.dependency_ids[k], row.task_id>> :
                k \in {j \in 1..Len(row.dependency_ids) :
                          row.dependency_ids[j] \in Range(nodes)}}
    IN  [built |-> TRUE,
         nodes |-> nodes,
         edges |-> UNION {EdgesOf(rows[i]) : i \in 1..Len(rows)}]

\* Python truth value of state.graph: None and a graph without nodes are falsy
GraphFalsy(g) == ~g.built \/ Len(g.nodes) = 0

Preds(g, v) == {e[1] : e \in {x \in g.edges : x[2] = v}}
Succs(g, v) == {e[2] : e \in {x \in g.edges : x[1] = v}}
InDegree(g, v) == Cardinality(Preds(g, v))
OutDegree(g, v) == Cardinality(Succs(g, v))

(***************************************************************************)
(* Shortest paths (networkx BFS): Walks(g, k)[s][t] is the number of walks *)
(* of k edges from s to t; the first k with a walk is the distance and the *)
(* walks of that length are the shortest paths.                            *)
(***************************************************************************)
Nodes(g) == Range(g.nodes)

RECURSIVE ISumF(_, _)
ISumF(f, S) ==
    IF S = {} THEN 0
    ELSE LET x == CHOOSE y \in S : TRUE IN f[x] + ISumF(f, S \ {x})

RECURSIVE RSumF(_, _)
RSumF(f, S) ==
    IF S = {} THEN RZero
    ELSE LET x == CHOOSE y \in S : TRUE IN RAdd(f[x], RSumF(f, S \ {x}))

RECURSIVE Walks(_, _)
Walks(g, k) ==
    IF k = 0
    THEN [s \in Nodes(g) |-> [t \in Nodes(g) |-> IF s = t THEN 1 ELSE 0]]
    ELSE LET P == Walks(g, k - 1)
         IN  [s \in Nodes(g) |-> [t \in Nodes(g) |-> ISumF(P[s], Preds(g, t))]]

\* [dist, sigma]: dist[s][t] = -1 when t is unreachable from s
ShortestPaths(g) ==
    LET n == Len(g.nodes)
        W == [k \in 0..(n - 1) |-> Walks(g, k)]
        Ks(s, t) == {k \in 0..(n - 1) : W[k][s][t] > 0}
        D == [s \in Nodes(g) |-> [t \in Nodes(g) |->
                IF Ks(s, t) = {} THEN -1
                ELSE CHOOSE k \in Ks(s, t) : \A j \in Ks(s, t) : k <= j]]
    IN  [dist |-> D,
         sigma |-> [s \in Nodes(g) |-> [t \in Nodes(g) |->
                      IF D[s][t] < 0 THEN 0 ELSE W[D[s][t]][s][t]]]]

\* nx.betweenness_centrality(graph): normalized, directed, endpoints excluded
betweenness_centrality(g) ==
    LET n == Len(g.nodes)
        sp == ShortestPaths(g)
        d == sp.dist
        sg == sp.sigma
        Through(s, t, v) ==
            IF /\ d[s][t] > 0 /\ d[s][v] > 0 /\ d[v][t] > 0
               /\ d[s][v] + d[v][t] = d[s][t]
            THEN R(sg[s][v] * sg[v][t], sg[s][t])
            ELSE RZero
        Raw(v) ==
            RSumF([p \in Nodes(g) \X Nodes(g) |-> Through(p[1], p[2], v)],
                  {p \in Nodes(g) \X Nodes(g) :
                      p[1] # v /\ p[2] # v /\ p[1] # p[2]})
    IN  [v \in Nodes(g) |->
            IF n <= 2 THEN Raw(v) ELSE RDiv(Raw(v), RInt((n - 1) * (n - 2)))]

\* nx.ancestors(graph, v) for every node v: the other nodes with a path to v
all_ancestors(g) ==
    LET d == ShortestPaths(g).dist
    IN  [v \in Nodes(g) |-> {u \in Nodes(g) : u # v /\ d[u][v] > 0}]

ancestors(g, v) == all_ancestors(g)[v]

\* nx.strongly_connected_components(graph), as a set of node sets
strongly_connected_components(g) ==
    LET d == ShortestPaths(g).dist
    IN  {{u \in Nodes(g) : u = v \/ (d[u][v] > 0 /\ d[v][u] > 0)} : v \in Nodes(g)}

\* stable descending sort of the positions of a sequence of rational keys:
\* list.sort(key=..., reverse=True) keeps equal keys in their original order
RECURSIVE SortPermDesc(_, _)
SortPermDesc(keys, n) ==
    IF n = 0 THEN <<>>
    ELSE LET p == SortPermDesc(keys, n - 1)
             c == Cardinality({j \in 1..Len(p) : RLe(keys[n], keys[p[j]])})
         IN  SubSeq(p, 1, c) \o <<n>> \o SubSeq(p, c + 1, Len(p))

SortDescBy(s, keys) ==
    LET p == SortPermDesc(keys, Len(s)) IN [i \in 1..Len(s) |-> s[p[i]]]

(***************************************************************************)
(* GraphBuilder.compute_metrics and its five groups.  A dict is a function *)
(* on its keys; {} is the function with no keys.  A call that can raise    *)
(* returns [exc, val].                                                     *)
(***************************************************************************)
EmptyDict == << >>
Get(m, k, default) == IF k \in DOMAIN m THEN m[k] ELSE default
Ok(v) == [exc |-> FALSE, val |-> v]
Raised == [exc |-> TRUE, val |-> EmptyDict]

\* weakly connected components: reachability over the undirected projection
Neighbors(g, v) == (Preds(g, v) \cup Succs(g, v)) \ {v}

RECURSIVE WeakComponent(_, _)
WeakComponent(g, S) ==
    LET T == S \cup UNION {Neighbors(g, v) : v \in S}
    IN  IF T = S THEN S ELSE WeakComponent(g, T)

weakly_connected_components(g) == {WeakComponent(g, {v}) : v \in Nodes(g)}

\* nx.average_clustering(graph.to_undirected())
average_clustering(g) ==
    LET Links(v) == {p \in Neighbors(g, v) \X Neighbors(g, v) :
                        p[1] # p[2] /\ p[2] \in Neighbors(g, p[1])}
        Deg(v) == Cardinality(Neighbors(g, v))
        C == [v \in Nodes(g) |->
                IF Deg(v) < 2 THEN RZero
                ELSE R(Cardinality(Links(v)), Deg(v) * (Deg(v) - 1))]
    IN  RDiv(RSumF(C, Nodes(g)), RInt(Len(g.nodes)))

\* nx.density(graph): m / (n (n - 1)), 0 when n <= 1 or m = 0
density(g) ==
    LET n == Len(g.nodes)
        m == Cardinality(g.edges)
    IN  IF m = 0 \/ n <= 1 THEN RZero ELSE R(m, n * (n - 1))

\* nx.is_weakly_connected raises NetworkXPointlessConcept on a null graph
compute_basic_metrics(g) ==
    IF Len(g.nodes) = 0 THEN Raised
    ELSE Ok([num_nodes |-> Len(g.nodes),
             num_edges |-> Cardinality(g.edges),
             density |-> density(g),
             is_connected |-> Cardinality(weakly_connected_components(g)) = 1,
             num_components |-> Cardinality(weakly_connected_components(g)),
             avg_clustering |-> average_clustering(g)])

\* the division by a maximum degree of 0 (no edge) raises ZeroDivisionError,
\* which the except clause turns into {}; pagerank is read by nothing and
\* is left out
compute_centrality_metrics(g) ==
    IF Len(g.nodes) = 0 THEN EmptyDict
    ELSE LET ind == [v \in Nodes(g) |-> InDegree(g, v)]
             outd == [v \in Nodes(g) |-> OutDegree(g, v)]
             max_in_degree == IMaxSeq([i \in 1..Len(g.nodes) |-> ind[g.nodes[i]]])
             max_out_degree == IMaxSeq([i \in 1..Len(g.nodes) |-> outd[g.nodes[i]]])
         IN  IF max_in_degree = 0 \/ max_out_degree = 0 THEN EmptyDict
             ELSE [betweenness |-> betweenness_centrality(g),
                   in_degree |-> ind,
                   out_degree |-> outd,
                   in_degree_norm |-> [v \in Nodes(g) |-> R(ind[v], max_in_degree)],
                   out_degree_norm |-> [v \in Nodes(g) |-> R(outd[v], max_out_degree)]]

\* a load score that also counts every task of the owner once
load_score_counting_tasks(stats) ==
    R(stats.total_tasks * 10 + stats.in_progress * 20 + stats.blocked * 15
      + stats.high_priority * 15 + stats.high_effort * 12
      + stats.due_soon * 10 + stats.overdue * 20, 10)

\* 2.0 in_progress + 1.5 blocked + 1.5 high_priority + 1.2 high_effort
\* + 1.0 due_soon + 2.0 overdue
load_score_of(stats) ==
    R(stats.in_progress * 20 + stats.blocked * 15
      + stats.high_priority * 15 + stats.high_effort * 12
      + stats.due_soon * 10 + stats.overdue * 20, 10)

\* (due_date_obj - today).days, defined for a parseable date only
days_until_due(row, today) == row.due_date.day - today

compute_owner_load_metrics(rows, settings, today) ==
    LET owners == Uniq([i \in 1..Len(rows) |-> rows[i].owner])
        Of(o) == {i \in 1..Len(rows) : rows[i].owner = o}
        Dated(o) == {i \in Of(o) : rows[i].due_date.kind = "date"}
        stats == [o \in Range(owners) |->
            [total_tasks |-> Cardinality(Of(o)),
             in_progress |-> Cardinality({i \in Of(o) : rows[i].status = "in_progress"}),
             blocked |-> Cardinality({i \in Of(o) : rows[i].status = "blocked"}),
             high_priority |-> Cardinality({i \in Of(o) : rows[i].priority = "high"}),
             high_effort |-> Cardinality({i \in Of(o) : rows[i].effort >= 4}),
             due_soon |-> Cardinality({i \in Dated(o) :
                             /\ days_until_due(rows[i], today) <= settings.due_soon_days
                             /\ days_until_due(rows[i], today) >= 0}),
             overdue |-> Cardinality({i \in Dated(o) :
                             days_until_due(rows[i], today) < 0})]]
        load_scores == [o \in Range(owners) |-> load_score_of(stats[o])]
        scores == [i \in 1..Len(owners) |-> load_scores[owners[i]]]
    IN  [owners |-> owners,
         owner_stats |-> stats,
         owner_load |-> [o \in Range(owners) |->
                           LET mine == SelectSeq(rows, LAMBDA r : r.owner = o)
                           IN  [i \in 1..Len(mine) |->
                                  [task_id |-> mine[i].task_id,
                                   title |-> mine[i].title,
                                   status |-> mine[i].status,
                                   priority |-> mine[i].priority,
                                   effort |-> mine[i].effort,
                                   due_date |-> mine[i].due_date]]],
         load_scores |-> load_scores,
         max_load |-> IF owners = <<>> THEN RZero ELSE RMaxSeq(scores),
         avg_load |-> IF owners = <<>> THEN RZero
                      ELSE RDiv(RSum(scores), RInt(Len(owners)))]

\* (today - start_date_obj).days of an in-progress task with a parseable start
days_in_progress(row, today) == today - row.start_date.day

compute_aging_metrics(rows, settings, today) ==
    LET Started(r) == r.start_date.kind = "date" /\ r.status = "in_progress"
        started == SelectSeq(rows, Started)
        Aging(r) == Started(r) /\ days_in_progress(r, today) > settings.aging_threshold
        aging == SelectSeq(rows, Aging)
        durations == [i \in 1..Len(started) |-> days_in_progress(started[i], today)]
    IN  [aging_tasks |-> [i \in 1..Len(aging) |->
                             [task_id |-> aging[i].task_id,
                              title |-> aging[i].title,
                              owner |-> aging[i].owner,
                              days_in_progress |-> days_in_progress(aging[i], today),
                              priority |-> aging[i].priority,
                              effort |-> aging[i].effort]],
         num_aging |-> Len(aging),
         avg_cycle_times |-> IF started = <<>> THEN EmptyDict
                             ELSE [s \in {"in_progress"} |->
                                     R(ISum(durations), Len(durations))],
         aging_threshold |-> settings.aging_threshold]

\* the dict compute_dependency_metrics returns, from nx.ancestors of every
\* node (anc) and nx.betweenness_centrality (bc)
dependency_metrics_of(g, anc, bc) ==
    LET depths == [v \in Nodes(g) |-> Cardinality(anc[v])]
        high == SelectSeq(g.nodes, LAMBDA v : RLt(R(1, 10), bc[v]))
        fan_in == [v \in Nodes(g) |-> InDegree(g, v)]
        fan_out == [v \in Nodes(g) |-> OutDegree(g, v)]
        Vals(f) == [i \in 1..Len(g.nodes) |-> f[g.nodes[i]]]
        Pairs(top) == [i \in 1..Len(top) |-> [task_id |-> top[i], score |-> bc[top[i]]]]
    IN  [depths |-> depths,
         max_depth |-> IMaxSeq(Vals(depths)),
         avg_depth |-> R(ISum(Vals(depths)), Len(g.nodes)),
         critical_paths |->
             Pairs(FirstN(SortDescBy(high, [i \in 1..Len(high) |-> bc[high[i]]]), 5)),
         fan_in |-> fan_in,
         fan_out |-> fan_out,
         max_fan_in |-> IMaxSeq(Vals(fan_in)),
         max_fan_out |-> IMaxSeq(Vals(fan_out))]

compute_dependency_metrics(g) ==
    IF Len(g.nodes) = 0 THEN EmptyDict
    ELSE dependency_metrics_of(g, all_ancestors(g), betweenness_centrality(g))

\* _compute_owner_load_metrics and _compute_aging_metrics each read the clock
\* (datetime.now().date()) for themselves: the second reading is the day of
\* the first or, when midnight passes in between, the day after
ClockReadings(today) == {<<today, today>>, <<today, today + 1>>}

\* the five groups, with owner_load_threshold taken as the due-soon window
compute_all_metrics_by_load_threshold(g, rows, settings, now) ==
    IF compute_basic_metrics(g).exc THEN Raised
    ELSE Ok([basic |-> compute_basic_metrics(g).val,
             centrality |-> compute_centrality_metrics(g),
             owner_load |->
                 compute_owner_load_metrics(
                     rows,
                     [settings EXCEPT !.due_soon_days = settings.owner_load_threshold],
                     now[1]),
             aging |-> compute_aging_metrics(rows, settings, now[2]),
             dependencies |-> compute_dependency_metrics(g)])

\* the five groups, computed without looking at the size of the graph;
\* now[1] is the day the owner-load group reads, now[2] the day the aging
\* group reads
compute_all_metrics(g, rows, settings, now) ==
    IF compute_basic_metrics(g).exc THEN Raised
    ELSE Ok([basic |-> compute_basic_metrics(g).val,
             centrality |-> compute_centrality_metrics(g),
             owner_load |-> compute_owner_load_metrics(rows, settings, now[1]),
             aging |-> compute_aging_metrics(rows, settings, now[2]),
             dependencies |-> compute_dependency_metrics(g)])

\* compute_metrics without its first two lines
compute_metrics_unguarded(g, rows, settings, now) ==
    compute_all_metrics(g, rows, settings, now)

\* "if not graph or graph.number_of_nodes() == 0: return {}"
compute_metrics(g, rows, settings, now) ==
    IF GraphFalsy(g) THEN Ok(EmptyDict)
    ELSE compute_all_metrics(g, rows, settings, now)

\* the groups compute_metrics computes outside any try/except; the
\* centrality group catches what it raises itself
UnguardedGroups == {"basic", "owner_load", "aging", "dependencies"}

\* compute_metrics when the computation of the group named thrown raises
\* ("none": no group raises): nothing catches it before the caller
compute_metrics_with(g, rows, settings, now, thrown) ==
    IF thrown \in UnguardedGroups /\ ~GraphFalsy(g) THEN Raised
    ELSE compute_metrics(g, rows, settings, now)

(***************************************************************************)
(* BottleneckDetector.  A reason is [phrase, num, ids]: the text of the    *)
(* f-string, the number it renders and the task ids it joins.              *)
(***************************************************************************)
Reason(phrase, num, ids) == [phrase |-> phrase, num |-> num, ids |-> ids]

priority_weight(p) ==
    CASE p = "high" -> R(3, 2)
      [] p = "med" -> ROne
      [] p = "low" -> R(7, 10)
      [] OTHER -> ROne

status_weight(st) ==
    CASE st = "in_progress" -> R(3, 2)
      [] st = "blocked" -> R(6, 5)
      [] st = "todo" -> ROne
      [] st = "done" -> R(1, 10)
      [] OTHER -> ROne

\* list(graph.predecessors(v)) / list(graph.successors(v)), in node order
PredList(g, v) == SelectSeq(g.nodes, LAMBDA u : u \in Preds(g, v))
SuccList(g, v) == SelectSeq(g.nodes, LAMBDA u : u \in Succs(g, v))

detect_centrality_bottlenecks(g, tl, metrics) ==
    LET betweenness == Get(Get(metrics, "centrality", EmptyDict), "betweenness", EmptyDict)
        keys == SelectSeq(g.nodes, LAMBDA v : v \in DOMAIN betweenness)
    IN  IF DOMAIN betweenness = {} THEN <<>>
        ELSE LET max_betweenness == RMaxSeq([i \in 1..Len(keys) |-> betweenness[keys[i]]])
                 threshold == RMul(max_betweenness, R(7, 10))
                 Hit(v) == RLe(threshold, betweenness[v]) /\ v \in DOMAIN tl
                 hits == SelectSeq(keys, Hit)
                 Norm(v) == IF RLt(RZero, max_betweenness)
                            THEN RDiv(betweenness[v], max_betweenness) ELSE RZero
             IN  [i \in 1..Len(hits) |->
                    [task_id |-> hits[i],
                     title |-> tl[hits[i]].title,
                     owner |-> tl[hits[i]].owner,
                     type |-> "high_betweenness",
                     score |-> Norm(hits[i]),
                     reason |-> Reason("High betweenness centrality",
                                       betweenness[hits[i]], <<>>),
                     details |-> [betweenness_score |-> betweenness[hits[i]],
                                  normalized_score |-> Norm(hits[i]),
                                  predecessors |-> PredList(g, hits[i]),
                                  successors |-> SuccList(g, hits[i])]]]

calculate_task_overload_score(task, load_score, max_load) ==
    LET base_score == IF RLt(RZero, max_load) THEN RDiv(load_score, max_load) ELSE RZero
        task_weight == RMul(RMul(priority_weight(task.priority), R(task.effort, 5)),
                            status_weight(task.status))
    IN  RMin(RMul(base_score, task_weight), ROne)

RECURSIVE Concat(_)
Concat(ss) == IF ss = <<>> THEN <<>> ELSE Head(ss) \o Concat(Tail(ss))

\* a detection whose inclusion threshold is the average load
detect_owner_overload_bottlenecks_above_average(rows, metrics) ==
    LET owner_load == Get(metrics, "owner_load", EmptyDict)
        load_scores == Get(owner_load, "load_scores", EmptyDict)
        owner_stats == Get(owner_load, "owner_stats", EmptyDict)
        owners == Get(owner_load, "owners", <<>>)
    IN  IF DOMAIN load_scores = {} THEN <<>>
        ELSE LET scores == [i \in 1..Len(owners) |-> load_scores[owners[i]]]
                 max_load == RMaxSeq(scores)
                 avg_load == RDiv(RSum(scores), RInt(Len(owners)))
                 threshold == avg_load
                 Score(task) == calculate_task_overload_score(
                                    task, load_scores[task.owner], max_load)
                 ForOwner(o) ==
                     IF ~RLe(threshold, load_scores[o]) THEN <<>>
                     ELSE LET mine == SelectSeq(lookup_values(rows),
                                        LAMBDA t : t.owner = o /\ RLt(R(3, 10), Score(t)))
                          IN  [i \in 1..Len(mine) |->
                                 [task_id |-> mine[i].task_id,
                                  title |-> mine[i].title,
                                  owner |-> o,
                                  type |-> "overloaded_owner",
                                  score |-> Score(mine[i]),
                                  reason |-> Reason("Owner is overloaded",
                                                    load_scores[o], <<>>),
                                  details |-> [owner_load_score |-> load_scores[o],
                                               owner_stats |-> owner_stats[o],
                                               task_priority |-> mine[i].priority,
                                               task_effort |-> mine[i].effort,
                                               task_status |-> mine[i].status]]]
             IN  Concat([i \in 1..Len(owners) |-> ForOwner(owners[i])])

detect_owner_overload_bottlenecks(rows, metrics) ==
    LET owner_load == Get(metrics, "owner_load", EmptyDict)
        load_scores == Get(owner_load, "load_scores", EmptyDict)
        owner_stats == Get(owner_load, "owner_stats", EmptyDict)
        owners == Get(owner_load, "owners", <<>>)
    IN  IF DOMAIN load_scores = {} THEN <<>>
        ELSE LET scores == [i \in 1..Len(owners) |-> load_scores[owners[i]]]
                 max_load == RMaxSeq(scores)
                 avg_load == RDiv(RSum(scores), RInt(Len(owners)))
                 threshold == RMax(RMul(avg_load, R(3, 2)), RMul(max_load, R(7, 10)))
                 Score(task) == calculate_task_overload_score(
                                    task, load_scores[task.owner], max_load)
                 ForOwner(o) ==
                     IF ~RLe(threshold, load_scores[o]) THEN <<>>
                     ELSE LET mine == SelectSeq(lookup_values(rows),
                                        LAMBDA t : t.owner = o /\ RLt(R(3, 10), Score(t)))
                          IN  [i \in 1..Len(mine) |->
                                 [task_id |-> mine[i].task_id,
                                  title |-> mine[i].title,
                                  owner |-> o,
                                  type |-> "overloaded_owner",
                                  score |-> Score(mine[i]),
                                  reason |-> Reason("Owner is overloaded",
                                                    load_scores[o], <<>>),
                                  details |-> [owner_load_score |-> load_scores[o],
                                               owner_stats |-> owner_stats[o],
                                               task_priority |-> mine[i].priority,
                                               task_effort |-> mine[i].effort,
                                               task_status |-> mine[i].status]]]
             IN  Concat([i \in 1..Len(owners) |-> ForOwner(owners[i])])

\* an aging score capped at 1 after the multiplication
aging_score_capped(a, max_days) ==
    RMin(RMul(RMul(RMin(R(a.days_in_progress, max_days), ROne),
                   priority_weight(a.priority)),
              R(a.effort, 5)),
         ROne)

\* final_score = aging_score * priority_weight * effort_weight
aging_score(a, max_days) ==
    RMul(RMul(RMin(R(a.days_in_progress, max_days), ROne),
              priority_weight(a.priority)),
         R(a.effort, 5))

\* the entry appended for one flagged aging task
aging_bottleneck(a, max_days, aging_threshold) ==
    [task_id |-> a.task_id,
     title |-> a.title,
     owner |-> a.owner,
     type |-> "aging_task",
     score |-> aging_score(a, max_days),
     reason |-> Reason("Task stuck in progress for days", RInt(a.days_in_progress), <<>>),
     details |-> [days_in_progress |-> a.days_in_progress,
                  priority |-> a.priority,
                  effort |-> a.effort,
                  aging_threshold |-> aging_threshold]]

aging_bottlenecks_of(aging_tasks, aging_threshold) ==
    [i \in 1..Len(aging_tasks) |->
        aging_bottleneck(aging_tasks[i],
                         IMaxSeq([k \in 1..Len(aging_tasks) |->
                                    aging_tasks[k].days_in_progress]),
                         aging_threshold)]

\* a detector that files each aging entry under its owner's name
detect_aging_bottlenecks_by_owner(metrics) ==
    LET found == aging_bottlenecks_of(
                     Get(Get(metrics, "aging", EmptyDict), "aging_tasks", <<>>), 5)
    IN  [i \in 1..Len(found) |-> [found[i] EXCEPT !.task_id = found[i].owner]]

detect_aging_bottlenecks(metrics) ==
    aging_bottlenecks_of(
        Get(Get(metrics, "aging", EmptyDict), "aging_tasks", <<>>),
        Get(Get(metrics, "aging", EmptyDict), "aging_threshold", 5))

detect_dependency_bottlenecks(g, tl, metrics) ==
    LET dependency_metrics == Get(metrics, "dependencies", EmptyDict)
        fan_in == Get(dependency_metrics, "fan_in", EmptyDict)
        fan_out == Get(dependency_metrics, "fan_out", EmptyDict)
        keys == SelectSeq(g.nodes, LAMBDA v : v \in DOMAIN fan_in)
    IN  IF DOMAIN fan_in = {} \/ DOMAIN fan_out = {} THEN <<>>
        ELSE LET max_fan_in == IMaxSeq([i \in 1..Len(keys) |-> fan_in[keys[i]]])
                 threshold == RMax(RInt(2), R(max_fan_in * 6, 10))
                 Hit(v) == RLe(threshold, RInt(fan_in[v])) /\ v \in DOMAIN tl
                 hits == SelectSeq(keys, Hit)
                 Choke(v) == IF max_fan_in > 0 THEN R(fan_in[v], max_fan_in) ELSE RZero
             IN  [i \in 1..Len(hits) |->
                    [task_id |-> hits[i],
                     title |-> tl[hits[i]].title,
                     owner |-> tl[hits[i]].owner,
                     type |-> "dependency_chokepoint",
                     score |-> Choke(hits[i]),
                     reason |-> Reason("High dependency fan-in creates chokepoint",
                                       RInt(fan_in[hits[i]]), <<>>),
                     details |-> [fan_in_count |-> fan_in[hits[i]],
                                  fan_out_count |-> Get(fan_out, hits[i], 0),
                                  dependencies |-> PredList(g, hits[i]),
                                  dependents |-> SuccList(g, hits[i])]]]

detect_critical_path_bottlenecks(g, tl, metrics) ==
    LET dependency_metrics == Get(metrics, "dependencies", EmptyDict)
        critical_paths == Get(dependency_metrics, "critical_paths", <<>>)
        top == SubSeq(critical_paths, 1,
                      IF Len(critical_paths) < 5 THEN Len(critical_paths) ELSE 5)
        hits == SelectSeq(top, LAMBDA c : c.task_id \in DOMAIN tl)
    IN  [i \in 1..Len(hits) |->
           [task_id |-> hits[i].task_id,
            title |-> tl[hits[i].task_id].title,
            owner |-> tl[hits[i].task_id].owner,
            type |-> "critical_path",
            score |-> hits[i].score,
            reason |-> Reason("Task is on critical path", hits[i].score, <<>>),
            details |-> [betweenness_score |-> hits[i].score,
                         path_position |-> "critical",
                         predecessors |-> PredList(g, hits[i].task_id),
                         successors |-> SuccList(g, hits[i].task_id)]]]

\* The lists that [list(component) for component in scc if len(component) > 1]
\* can be: networkx yields each component as a set, and the iteration order
\* of a set of strings varies with the interpreter's hash seed.
RECURSIVE CycleLists(_)
CycleLists(comps) ==
    IF comps = {} THEN {<<>>}
    ELSE UNION {{<<c>> \o rest : c \in Perms(comp), rest \in CycleLists(comps \ {comp})} :
                  comp \in comps}

circular_deps(g) ==
    CycleLists({c \in strongly_connected_components(g) : Cardinality(c) > 1})

detect_circular_dependencies(tl, cycles) ==
    LET ForCycle(cycle) ==
            LET hits == SelectSeq(cycle, LAMBDA v : v \in DOMAIN tl)
            IN  [i \in 1..Len(hits) |->
                   [task_id |-> hits[i],
                    title |-> tl[hits[i]].title,
                    owner |-> tl[hits[i]].owner,
                    type |-> "circular_dependency",
                    score |-> R(8, 10),
                    reason |-> Reason("Task is part of circular dependency chain",
                                      RZero, cycle),
                    details |-> [cycle |-> cycle,
                                 cycle_length |-> Len(cycle),
                                 cycle_members |-> [k \in 1..Len(cycle) |->
                                     IF cycle[k] \in DOMAIN tl
                                     THEN tl[cycle[k]].title ELSE <<cycle[k]>>]]]]
    IN  Concat([i \in 1..Len(cycles) |-> ForCycle(cycles[i])])

\* the six lists in the order detect_bottlenecks extends its result with them
collect_bottlenecks(g, rows, metrics, cycles) ==
    LET tl == task_lookup(rows)
    IN  detect_centrality_bottlenecks(g, tl, metrics)
        \o detect_owner_overload_bottlenecks(rows, metrics)
        \o detect_aging_bottlenecks(metrics)
        \o detect_dependency_bottlenecks(g, tl, metrics)
        \o detect_critical_path_bottlenecks(g, tl, metrics)
        \o detect_circular_dependencies(tl, cycles)

Reverse(s) == [i \in 1..Len(s) |-> s[Len(s) + 1 - i]]

\* a descending sort that lists equal scores latest first
sort_by_score_ties_reversed(bs) ==
    SortDescBy(Reverse(bs), [i \in 1..Len(bs) |-> Reverse(bs)[i].score])

\* bottlenecks.sort(key=lambda x: x['score'], reverse=True)
sort_by_score(bs) == SortDescBy(bs, [i \in 1..Len(bs) |-> bs[i].score])

detect_bottlenecks(g, rows, metrics, cycles) ==
    IF GraphFalsy(g) THEN <<>>
    ELSE sort_by_score(collect_bottlenecks(g, rows, metrics, cycles))

(***************************************************************************)
(* RiskForecaster.                                                         *)
(***************************************************************************)
\* predecessors is list(nx.ancestors(graph, task_id))
calculate_dependency_depth_risk(predecessors, tl) ==
    LET depth == Cardinality(predecessors)
        blocked_deps == Cardinality({u \in predecessors :
                            u \in DOMAIN tl /\ tl[u].status \in {"blocked", "todo"}})
        depth_risk == RMin(R(depth, 5), ROne)
        blocked_penalty == RMin(R(blocked_deps, IF depth > 1 THEN depth ELSE 1), ROne)
    IN  RMin(RAdd(depth_risk, RMul(blocked_penalty, R(1, 2))), ROne)

calculate_owner_overload_risk(task, metrics) ==
    LET owner_load == Get(metrics, "owner_load", EmptyDict)
        load_scores == Get(owner_load, "load_scores", EmptyDict)
        owner_stats == Get(owner_load, "owner_stats", EmptyDict)
        owners == Get(owner_load, "owners", <<>>)
        owner_load_score == Get(load_scores, task.owner, RZero)
        owner_stat == Get(owner_stats, task.owner, EmptyDict)
        max_load == IF owners = <<>> THEN ROne
                    ELSE RMaxSeq([i \in 1..Len(owners) |-> load_scores[owners[i]]])
        load_risk == IF RLt(RZero, max_load) THEN RDiv(owner_load_score, max_load) ELSE RZero
        overload_penalty ==
            RAdd(RAdd(IF Get(owner_stat, "in_progress", 0) > 3 THEN R(2, 10) ELSE RZero,
                      IF Get(owner_stat, "blocked", 0) > 1 THEN R(3, 10) ELSE RZero),
                 IF Get(owner_stat, "high_priority", 0) > 2 THEN R(2, 10) ELSE RZero)
    IN  RMin(RAdd(load_risk, overload_penalty), ROne)

\* a blocker factor that looks at the dependencies of a blocked task too
calculate_blocker_risk_of_dependencies(task, g, tl) ==
    IF Preds(g, task.task_id) # {}
    THEN R(Cardinality({u \in Preds(g, task.task_id) :
                           u \in DOMAIN tl /\ tl[u].status = "blocked"}),
           Cardinality(Preds(g, task.task_id)))
    ELSE RZero

calculate_blocker_risk(task, g, tl) ==
    IF task.status = "blocked" THEN ROne
    ELSE LET predecessors == Preds(g, task.task_id)
             blocked_dependencies == Cardinality({u \in predecessors :
                                        u \in DOMAIN tl /\ tl[u].status = "blocked"})
         IN  IF predecessors # {}
             THEN R(blocked_dependencies, Cardinality(predecessors))
             ELSE RZero

\* a staircase that counts a task due today as overdue
calculate_deadline_pressure_risk_from_today(task, today) ==
    IF task.due_date.kind # "date" THEN RZero
    ELSE IF days_until_due(task, today) <= 0 THEN ROne
    ELSE IF days_until_due(task, today) <= 3 THEN R(9, 10)
    ELSE IF days_until_due(task, today) <= 7 THEN R(7, 10)
    ELSE IF days_until_due(task, today) <= 14 THEN R(4, 10)
    ELSE R(1, 10)

calculate_deadline_pressure_risk(task, today) ==
    IF task.due_date.kind # "date" THEN RZero
    ELSE LET d == days_until_due(task, today)
         IN  IF d < 0 THEN ROne
             ELSE IF d <= 3 THEN R(9, 10)
             ELSE IF d <= 7 THEN R(7, 10)
             ELSE IF d <= 14 THEN R(4, 10)
             ELSE R(1, 10)

calculate_effort_complexity_risk(task) ==
    LET effort_risk == R(task.effort - 1, 4)
    IN  IF task.effort >= 4 THEN RMin(RAdd(effort_risk, R(2, 10)), ROne)
        ELSE effort_risk

calculate_historical_pattern_risk(task, metrics) ==
    LET aging_tasks == Get(Get(metrics, "aging", EmptyDict), "aging_tasks", <<>>)
        owner_stats == Get(Get(metrics, "owner_load", EmptyDict), "owner_stats", EmptyDict)
        owner_stat == Get(owner_stats, task.owner, EmptyDict)
    IN  IF \E i \in 1..Len(aging_tasks) : aging_tasks[i].task_id = task.task_id
        THEN R(8, 10)
        ELSE IF Get(owner_stat, "overdue", 0) > 0 THEN R(6, 10)
        ELSE IF Get(owner_stat, "blocked", 0) > 1 THEN R(4, 10)
        ELSE RZero

risk_factor_values(task, g, tl, metrics, predecessors, today) ==
    [dependency_depth |-> calculate_dependency_depth_risk(predecessors, tl),
     owner_overload |-> calculate_owner_overload_risk(task, metrics),
     unresolved_blockers |-> calculate_blocker_risk(task, g, tl),
     deadline_pressure |-> calculate_deadline_pressure_risk(task, today),
     effort_complexity |-> calculate_effort_complexity_risk(task),
     historical_patterns |-> calculate_historical_pattern_risk(task, metrics)]

\* the weighted sum of the factors over the sum of the weights, times the
\* priority weight, capped at 1
weighted_risk(f, priority) ==
    LET total_score ==
            RSum(<<RMul(f.dependency_depth, R(25, 100)),
                   RMul(f.owner_overload, R(20, 100)),
                   RMul(f.unresolved_blockers, R(20, 100)),
                   RMul(f.deadline_pressure, R(15, 100)),
                   RMul(f.effort_complexity, R(10, 100)),
                   RMul(f.historical_patterns, R(10, 100))>>)
        total_weight == RSum(<<R(25, 100), R(20, 100), R(20, 100),
                               R(15, 100), R(10, 100), R(10, 100)>>)
    IN  RMin(RMul(RDiv(total_score, total_weight), priority_weight(priority)), ROne)

calculate_risk_score(task, g, tl, metrics, predecessors, today) ==
    weighted_risk(risk_factor_values(task, g, tl, metrics, predecessors, today),
                  task.priority)

categorize_risk_level(risk_score) ==
    IF RLe(R(8, 10), risk_score) THEN "Critical"
    ELSE IF RLe(R(6, 10), risk_score) THEN "High"
    ELSE IF RLe(R(4, 10), risk_score) THEN "Medium"
    ELSE IF RLe(R(2, 10), risk_score) THEN "Low"
    ELSE "Minimal"

identify_risk_factors(task, tl, metrics, predecessors, today) ==
    LET blocked_deps == {u \in predecessors :
                            u \in DOMAIN tl /\ tl[u].status = "blocked"}
        owner_load == Get(metrics, "owner_load", EmptyDict)
        owner_load_score == Get(Get(owner_load, "load_scores", EmptyDict), task.owner, RZero)
        owner_stat == Get(Get(owner_load, "owner_stats", EmptyDict), task.owner, EmptyDict)
        aging_tasks == Get(Get(metrics, "aging", EmptyDict), "aging_tasks", <<>>)
        mine == SelectSeq(aging_tasks, LAMBDA a : a.task_id = task.task_id)
        d == days_until_due(task, today)
    IN  (IF Cardinality(predecessors) > 3
         THEN <<Reason("Deep dependency chain", RInt(Cardinality(predecessors)), <<>>)>>
         ELSE <<>>)
        \o (IF blocked_deps # {}
            THEN <<Reason("Blocked dependencies", RInt(Cardinality(blocked_deps)), <<>>)>>
            ELSE <<>>)
        \o (IF RLt(RInt(5), owner_load_score)
            THEN <<Reason("Owner overload", owner_load_score, <<>>)>> ELSE <<>>)
        \o (IF Get(owner_stat, "in_progress", 0) > 3
            THEN <<Reason("Owner has tasks in progress", RInt(owner_stat.in_progress), <<>>)>>
            ELSE <<>>)
        \o (IF Get(owner_stat, "blocked", 0) > 0
            THEN <<Reason("Owner has blocked tasks", RInt(owner_stat.blocked), <<>>)>>
            ELSE <<>>)
        \o (IF task.due_date.kind = "date" /\ d < 0
            THEN <<Reason("Overdue by days", RInt(Abs(d)), <<>>)>>
            ELSE IF task.due_date.kind = "date" /\ d <= 3
            THEN <<Reason("Due in days", RInt(d), <<>>)>>
            ELSE <<>>)
        \o (IF task.effort >= 4
            THEN <<Reason("High effort task", RInt(task.effort), <<>>)>> ELSE <<>>)
        \o (IF mine # <<>>
            THEN <<Reason("Task aging", RInt(mine[1].days_in_progress), <<>>)>>
            ELSE <<>>)

risk_entry(task, risk_score, reasons) ==
    [task_id |-> task.task_id,
     title |-> task.title,
     owner |-> task.owner,
     status |-> task.status,
     risk_score |-> risk_score,
     risk_level |-> categorize_risk_level(risk_score),
     reasons |-> reasons,
     due_date |-> task.due_date,
     priority |-> task.priority,
     effort |-> task.effort]

\* the entry forecast_risks would append for each row, in row order
scored_tasks(g, rows, tl, metrics, anc, today) ==
    [i \in 1..Len(rows) |->
        risk_entry(rows[i],
                   calculate_risk_score(rows[i], g, tl, metrics,
                                        anc[rows[i].task_id], today),
                   identify_risk_factors(rows[i], tl, metrics,
                                         anc[rows[i].task_id], today))]

\* the risk_factors dict, score and level _calculate_risk_score and
\* _categorize_risk_level give each task that is not done, in row order
scored_factors(g, rows, metrics, today) ==
    IF GraphFalsy(g) \/ rows = <<>> THEN <<>>
    ELSE LET scored == SelectSeq(rows, LAMBDA r : r.status # "done") IN
         [i \in 1..Len(scored) |->
            [task_id |-> scored[i].task_id,
             factors |-> risk_factor_values(scored[i], g, task_lookup(rows), metrics,
                                            ancestors(g, scored[i].task_id), today),
             risk_score |-> calculate_risk_score(scored[i], g, task_lookup(rows), metrics,
                                            ancestors(g, scored[i].task_id), today),
             risk_level |-> categorize_risk_level(
                                calculate_risk_score(scored[i], g, task_lookup(rows), metrics,
                                            ancestors(g, scored[i].task_id), today))]]

\* a filter that also lets a score of exactly 0.3 through
is_reported_from_threshold(entry) ==
    entry.status # "done" /\ RLe(R(3, 10), entry.risk_score)

\* "if row['status'] == 'done': continue" and "if risk_score > 0.3"
is_reported(entry) == entry.status # "done" /\ RLt(R(3, 10), entry.risk_score)

\* risks.sort(key=lambda x: x['risk_score'], reverse=True)
sort_by_risk(risks) == SortDescBy(risks, [i \in 1..Len(risks) |-> risks[i].risk_score])

forecast_risks(g, rows, metrics, today) ==
    IF GraphFalsy(g) \/ rows = <<>> THEN <<>>
    ELSE sort_by_risk(SelectSeq(
             scored_tasks(g, rows, task_lookup(rows), metrics, all_ancestors(g), today),
             is_reported))

(***************************************************************************)
(* RecommendationEngine.  A recommendation is [title, rationale,           *)
(* expected_effect, type, priority]; a title is the tuple of its words and *)
(* a rationale the [phrase, num, ids] of its f-string.                     *)
(***************************************************************************)
Rec(title, rationale, effect, type, priority) ==
    [title |-> title, rationale |-> rationale, expected_effect |-> effect,
     type |-> type, priority |-> priority]

\* LLMEngine._fallback_response for the recommendations prompt, as
\* _parse_llm_recommendations reads it (no "type", no "priority")
fallback_response ==
    <<Rec(<<"Review task priorities">>,
          Reason("Current workload may be causing delays", RZero, <<>>),
          "Better task prioritization and focus", "unknown", "medium")>>

\* What the text generator can contribute to one bottleneck:
\*   "no_module"  the llm module failed to import (LLM_AVAILABLE is False)
\*   "fallback"   transformers or the model is missing, or inference raised
\*   "model"      the model answered: no parseable JSON, or a list of actions
LlmModes == {"no_module", "fallback", "model"}

ModelAnswers ==
    {<<>>,
     <<Rec(<<"Split task into subtasks">>,
           Reason("generated", RZero, <<>>), "generated", "split_task", "medium"),
       Rec(<<"Pair with a senior engineer">>,
           Reason("generated", RZero, <<>>), "generated", "unknown", "medium")>>}

generate_llm_recommendations(llm, answer) ==
    IF llm = "no_module" THEN <<>>
    ELSE IF llm = "fallback" THEN fallback_response
    ELSE answer

\* min(available_owners, key=load): the first owner with the least load
RECURSIVE FirstMin(_, _)
FirstMin(owners, load) ==
    IF Len(owners) = 1 THEN owners[1]
    ELSE LET m == FirstMin(SubSeq(owners, 1, Len(owners) - 1), load)
             x == owners[Len(owners)]
         IN  IF RLt(load[x], load[m]) THEN x ELSE m

\* a rule that takes as available every owner whose load is not above the
\* task owner's
get_owner_overload_recommendations_not_above(task, metrics) ==
    LET owner_load == Get(metrics, "owner_load", EmptyDict)
        load_scores == Get(owner_load, "load_scores", EmptyDict)
        owners == Get(owner_load, "owners", <<>>)
        current_load == Get(load_scores, task.owner, RZero)
        available_owners ==
            SelectSeq(owners, LAMBDA o : RLe(load_scores[o], current_load))
        best_owner == FirstMin(available_owners, load_scores)
    IN  (IF available_owners # <<>>
         THEN <<Rec(<<"Reassign to", best_owner>>,
                    [phrase |-> "Owner has lower workload",
                     num |-> load_scores[best_owner], ids |-> <<best_owner>>],
                    "Reduces overload and balances workload", "reassign", "high")>>
         ELSE <<>>)
        \o (IF task.effort >= 4
            THEN <<Rec(<<"Split task into subtasks">>,
                       Reason("High effort task can be broken down", RInt(task.effort), <<>>),
                       "Reduces individual task complexity", "split_task", "medium")>>
            ELSE <<>>)
        \o (IF task.priority = "high"
            THEN <<Rec(<<"Escalate to management">>,
                       Reason("High priority task needs management attention", RZero, <<>>),
                       "Ensures proper resource allocation", "escalate", "high")>>
            ELSE <<>>)

get_owner_overload_recommendations(task, metrics) ==
    LET owner_load == Get(metrics, "owner_load", EmptyDict)
        load_scores == Get(owner_load, "load_scores", EmptyDict)
        owners == Get(owner_load, "owners", <<>>)
        current_load == Get(load_scores, task.owner, RZero)
        available_owners ==
            SelectSeq(owners, LAMBDA o : RLt(load_scores[o], RMul(current_load, R(7, 10))))
        best_owner == FirstMin(available_owners, load_scores)
    IN  (IF available_owners # <<>>
         THEN <<Rec(<<"Reassign to", best_owner>>,
                    [phrase |-> "Owner has lower workload",
                     num |-> load_scores[best_owner], ids |-> <<best_owner>>],
                    "Reduces overload and balances workload", "reassign", "high")>>
         ELSE <<>>)
        \o (IF task.effort >= 4
            THEN <<Rec(<<"Split task into subtasks">>,
                       Reason("High effort task can be broken down", RInt(task.effort), <<>>),
                       "Reduces individual task complexity", "split_task", "medium")>>
            ELSE <<>>)
        \o (IF task.priority = "high"
            THEN <<Rec(<<"Escalate to management">>,
                       Reason("High priority task needs management attention", RZero, <<>>),
                       "Ensures proper resource allocation", "escalate", "high")>>
            ELSE <<>>)

get_aging_task_recommendations(task, bottleneck, rows) ==
    LET owner_task_count == Cardinality({i \in 1..Len(rows) : rows[i].owner = task.owner})
    IN  (IF task.status = "blocked"
         THEN <<Rec(<<"Identify and resolve blockers">>,
                    Reason("Task is blocked and needs unblocking", RZero, <<>>),
                    "Removes impediments to progress", "escalate", "high")>>
         ELSE <<>>)
        \o (IF owner_task_count > 5
            THEN <<Rec(<<"Reassign to less busy owner">>,
                       Reason("Owner has tasks, may be overloaded",
                              RInt(owner_task_count), <<>>),
                       "Reduces individual owner workload", "reassign", "medium")>>
            ELSE <<>>)
        \o <<Rec(<<"Renegotiate deadline">>,
                 Reason("Task has been in progress for days",
                        RInt(Get(bottleneck.details, "days_in_progress", 0)), <<>>),
                 "Sets realistic expectations", "renegotiate_deadline", "medium")>>

get_dependency_recommendations(bottleneck) ==
    LET fan_in_count == Get(bottleneck.details, "fan_in_count", 0)
    IN  (IF fan_in_count > 3
         THEN <<Rec(<<"Break down dependencies">>,
                    Reason("Task has dependencies, creating chokepoint",
                           RInt(fan_in_count), <<>>),
                    "Reduces dependency complexity", "remove_dependencies", "high")>>
         ELSE <<>>)
        \o <<Rec(<<"Increase priority">>,
                 Reason("Critical chokepoint task should be prioritized", RZero, <<>>),
                 "Ensures timely completion of critical path", "prioritize", "high")>>

get_critical_path_recommendations ==
    <<Rec(<<"Allocate dedicated resources">>,
          Reason("Critical path task needs dedicated attention", RZero, <<>>),
          "Ensures timely completion of critical path", "add_resources", "high"),
      Rec(<<"Implement daily check-ins">>,
          Reason("Critical path requires close monitoring", RZero, <<>>),
          "Early detection of issues", "escalate", "medium")>>

get_circular_dependency_recommendations(bottleneck) ==
    <<Rec(<<"Break circular dependency">>,
          Reason("Task is part of circular dependency", RZero,
                 Get(bottleneck.details, "cycle", <<>>)),
          "Eliminates blocking circular dependency", "remove_dependencies", "high"),
      Rec(<<"Redesign workflow">>,
          Reason("Circular dependencies indicate workflow design issues", RZero, <<>>),
          "Creates more efficient workflow", "escalate", "high")>>

generate_rule_based_recommendations(bottleneck, task, rows, metrics) ==
    CASE bottleneck.type = "overloaded_owner" ->
            get_owner_overload_recommendations(task, metrics)
      [] bottleneck.type = "aging_task" ->
            get_aging_task_recommendations(task, bottleneck, rows)
      [] bottleneck.type = "dependency_chokepoint" ->
            get_dependency_recommendations(bottleneck)
      [] bottleneck.type = "critical_path" ->
            get_critical_path_recommendations
      [] bottleneck.type = "circular_dependency" ->
            get_circular_dependency_recommendations(bottleneck)
      [] OTHER -> <<>>

\* keeps the first recommendation of every (title, type) pair
RECURSIVE deduplicate_recommendations(_)
deduplicate_recommendations(recs) ==
    IF recs = <<>> THEN <<>>
    ELSE LET front == SubSeq(recs, 1, Len(recs) - 1)
             last == recs[Len(recs)]
         IN  IF \E i \in 1..Len(front) :
                    front[i].title = last.title /\ front[i].type = last.type
             THEN deduplicate_recommendations(front)
             ELSE Append(deduplicate_recommendations(front), last)

\* every bottleneck's task_id is a key of task_lookup here, so
\* task_lookup.get(task_id, {}) is that task
\* one group per task: the bottlenecks of a task after its first are dropped
generate_recommendations_per_task(bottlenecks, rows, metrics, llm, answer) ==
    LET tl == task_lookup(rows)
        FirstOfTask(i) ==
            \A j \in 1..(i - 1) : bottlenecks[j].task_id # bottlenecks[i].task_id
        kept == SelectSeq([i \in 1..Len(bottlenecks) |-> i], FirstOfTask)
        Group(b) ==
            [task_id |-> b.task_id,
             title |-> tl[b.task_id].title,
             owner |-> tl[b.task_id].owner,
             bottleneck_type |-> b.type,
             bottleneck_score |-> b.score,
             recommendations |->
                 FirstN(deduplicate_recommendations(
                            generate_llm_recommendations(llm, answer)
                              \o generate_rule_based_recommendations(
                                     b, tl[b.task_id], rows, metrics)), 3)]
    IN  [k \in 1..Len(kept) |-> Group(bottlenecks[kept[k]])]

generate_recommendations(bottlenecks, rows, metrics, llm, answer) ==
    LET tl == task_lookup(rows)
        Group(b) ==
            LET task == tl[b.task_id]
                llm_recommendations == generate_llm_recommendations(llm, answer)
                rule_recommendations ==
                    generate_rule_based_recommendations(b, task, rows, metrics)
                all_recommendations == llm_recommendations \o rule_recommendations
            IN  [task_id |-> b.task_id,
                 title |-> task.title,
                 owner |-> task.owner,
                 bottleneck_type |-> b.type,
                 bottleneck_score |-> b.score,
                 recommendations |->
                     FirstN(deduplicate_recommendations(all_recommendations), 3)]
    IN  [i \in 1..Len(bottlenecks) |-> Group(bottlenecks[i])]

(***************************************************************************)
(* WorkflowState and StorageManager.  A table is the sequence of its rows  *)
(* in rowid order ("SELECT * ... WHERE run_id = ?" returns them so); the   *)
(* metrics table, which load_run folds into a dict, is the set of its rows.*)
(* Every value json.dumps is given here is made of str-keyed dicts, lists, *)
(* strings, numbers and None, which json.loads gives back unchanged: the   *)
(* stored text is the value wrapped as [json |-> value].                   *)
(***************************************************************************)
WorkflowState(r, g, m, bs, recs, risks, report, st, ts) ==
    [rows |-> r, graph |-> g, metrics |-> m, bottlenecks |-> bs,
     recommendations |-> recs, risk_forecast |-> risks, run_report_md |-> report,
     settings |-> st, timestamp |-> ts]

\* the stored values (numbers, strings, lists and dicts keyed by strings) are
\* all JSON values, which json.loads gives back as json.dumps took them
json_dumps(v) == [json |-> v]
json_loads(text) == text.json

EmptyDb ==
    [runs |-> <<>>, tasks |-> <<>>, dependencies |-> <<>>, bottlenecks |-> <<>>,
     recommendations |-> <<>>, risks |-> <<>>, metrics |-> {}]

save_tasks(run_id, rows) ==
    [i \in 1..Len(rows) |->
        [run_id |-> run_id,
         task_id |-> rows[i].task_id,
         title |-> rows[i].title,
         owner |-> rows[i].owner,
         status |-> rows[i].status,
         start_date |-> rows[i].start_date,
         due_date |-> rows[i].due_date,
         priority |-> rows[i].priority,
         effort |-> rows[i].effort,
         notes |-> rows[i].notes]]

save_dependencies(run_id, rows) ==
    Concat([i \in 1..Len(rows) |->
        [k \in 1..Len(rows[i].dependency_ids) |->
            [run_id |-> run_id,
             task_id |-> rows[i].task_id,
             dependency_id |-> rows[i].dependency_ids[k]]]])

save_bottlenecks(run_id, bottlenecks) ==
    [i \in 1..Len(bottlenecks) |->
        [run_id |-> run_id,
         task_id |-> bottlenecks[i].task_id,
         title |-> bottlenecks[i].title,
         owner |-> bottlenecks[i].owner,
         type |-> bottlenecks[i].type,
         score |-> bottlenecks[i].score,
         reason |-> bottlenecks[i].reason,
         details |-> json_dumps(bottlenecks[i].details)]]

\* one table row per recommendation, carrying its group's task_id, title
\* and owner; the group's bottleneck_type and bottleneck_score are not stored
save_recommendations(run_id, recommendations) ==
    Concat([i \in 1..Len(recommendations) |->
        LET rec_group == recommendations[i]
        IN  [k \in 1..Len(rec_group.recommendations) |->
                [run_id |-> run_id,
                 task_id |-> rec_group.task_id,
                 title |-> rec_group.title,
                 owner |-> rec_group.owner,
                 recommendation_title |-> rec_group.recommendations[k].title,
                 type |-> rec_group.recommendations[k].type,
                 priority |-> rec_group.recommendations[k].priority,
                 rationale |-> rec_group.recommendations[k].rationale,
                 expected_effect |-> rec_group.recommendations[k].expected_effect]]])

save_risks(run_id, risks) ==
    [i \in 1..Len(risks) |->
        [run_id |-> run_id,
         task_id |-> risks[i].task_id,
         title |-> risks[i].title,
         owner |-> risks[i].owner,
         status |-> risks[i].status,
         risk_level |-> risks[i].risk_level,
         risk_score |-> risks[i].risk_score,
         due_date |-> risks[i].due_date,
         priority |-> risks[i].priority,
         effort |-> risks[i].effort,
         reasons |-> json_dumps(risks[i].reasons)]]

save_metrics(run_id, metrics) ==
    UNION {{[run_id |-> run_id,
             metric_type |-> metric_type,
             metric_name |-> metric_name,
             metric_value |-> json_dumps(metrics[metric_type][metric_name])] :
               metric_name \in DOMAIN metrics[metric_type]} :
            metric_type \in DOMAIN metrics}

\* the database after save_run(state) commits; run_id is cursor.lastrowid
save_run(db, state) ==
    LET run_id == Len(db.runs) + 1
    IN  [run_id |-> run_id,
         db |->
           [runs |-> Append(db.runs,
                [id |-> run_id,
                 timestamp |-> state.timestamp,
                 settings |-> json_dumps(state.settings),
                 num_tasks |-> Len(state.rows),
                 num_owners |-> Cardinality({state.rows[i].owner : i \in 1..Len(state.rows)}),
                 num_bottlenecks |-> Len(state.bottlenecks),
                 num_risks |-> Len(state.risk_forecast),
                 run_report_md |-> state.run_report_md]),
            tasks |-> db.tasks \o save_tasks(run_id, state.rows),
            dependencies |-> db.dependencies \o save_dependencies(run_id, state.rows),
            bottlenecks |-> db.bottlenecks \o save_bottlenecks(run_id, state.bottlenecks),
            recommendations |->
                db.recommendations \o save_recommendations(run_id, state.recommendations),
            risks |-> db.risks \o save_risks(run_id, state.risk_forecast),
            metrics |-> db.metrics \cup save_metrics(run_id, state.metrics)]]

\* the steps of save_run that can raise, in the order of the code: opening
\* the connection, the insert of each table, the commit
SaveSteps ==
    <<"connect", "runs", "tasks", "dependencies", "bottlenecks", "recommendations",
      "risks", "metrics", "commit">>

StepIndex(step) == CHOOSE k \in 1..Len(SaveSteps) : SaveSteps[k] = step

\* "if hasattr(state, ...) and state.<field>": the step is reached only
\* when the state has something for its table
step_runs(state, step) ==
    CASE step \in {"tasks", "dependencies"} -> state.rows # <<>>
      [] step = "bottlenecks" -> state.bottlenecks # <<>>
      [] step = "recommendations" -> state.recommendations # <<>>
      [] step = "risks" -> state.risk_forecast # <<>>
      [] step = "metrics" -> state.metrics # EmptyDict
      [] OTHER -> TRUE

\* what the connection's open transaction holds when the step raises: the
\* rows of the steps before it
inserted_before(db, state, failing) ==
    LET full == save_run(db, state).db
        Table(step) == IF StepIndex(step) < StepIndex(failing) THEN full ELSE db
    IN  [runs |-> Table("runs").runs,
         tasks |-> Table("tasks").tasks,
         dependencies |-> Table("dependencies").dependencies,
         bottlenecks |-> Table("bottlenecks").bottlenecks,
         recommendations |-> Table("recommendations").recommendations,
         risks |-> Table("risks").risks,
         metrics |-> Table("metrics").metrics]

\* conn.rollback(): the open transaction is dropped
rollback(committed, open_transaction) == committed

\* the except branch of save_run when a step raises.  It calls
\* conn.rollback(), and conn is not bound when it is _get_connection that
\* raised: the handler then raises UnboundLocalError in place of the error
save_run_except(db, state, failing) ==
    IF failing = "connect"
    THEN [raises |-> "UnboundLocalError", db |-> db]
    ELSE [raises |-> "error", db |-> rollback(db, inserted_before(db, state, failing))]

OfRun(table, run_id) == SelectSeq(table, LAMBDA r : r.run_id = run_id)

\* "for task in state.rows: if task['task_id'] == task_id: append; break":
\* a dependency row goes to the first loaded task with its task_id
load_tasks(db, run_id) ==
    LET task_rows == OfRun(db.tasks, run_id)
        dep_rows == OfRun(db.dependencies, run_id)
        First(i) == \A j \in 1..(i - 1) : task_rows[j].task_id # task_rows[i].task_id
        DepsOf(i) ==
            IF First(i)
            THEN LET mine == SelectSeq(dep_rows,
                                 LAMBDA d : d.task_id = task_rows[i].task_id)
                 IN  [k \in 1..Len(mine) |-> mine[k].dependency_id]
            ELSE <<>>
    IN  [i \in 1..Len(task_rows) |->
            [task_id |-> task_rows[i].task_id,
             title |-> task_rows[i].title,
             owner |-> task_rows[i].owner,
             status |-> task_rows[i].status,
             start_date |-> task_rows[i].start_date,
             due_date |-> task_rows[i].due_date,
             priority |-> task_rows[i].priority,
             effort |-> task_rows[i].effort,
             notes |-> task_rows[i].notes,
             dependency_ids |-> DepsOf(i)]]

load_bottlenecks(db, run_id) ==
    LET bottleneck_rows == OfRun(db.bottlenecks, run_id)
    IN  [i \in 1..Len(bottleneck_rows) |->
            [task_id |-> bottleneck_rows[i].task_id,
             title |-> bottleneck_rows[i].title,
             owner |-> bottleneck_rows[i].owner,
             type |-> bottleneck_rows[i].type,
             score |-> bottleneck_rows[i].score,
             reason |-> bottleneck_rows[i].reason,
             details |-> json_loads(bottleneck_rows[i].details)]]

\* rec_by_task: one group per task_id, in order of first appearance, made of
\* task_id, title, owner (of the first row) and the recommendations of all
\* rows with that task_id
load_recommendations(db, run_id) ==
    LET rec_rows == OfRun(db.recommendations, run_id)
        keys == Uniq([i \in 1..Len(rec_rows) |-> rec_rows[i].task_id])
        Group(task_id) ==
            LET mine == SelectSeq(rec_rows, LAMBDA r : r.task_id = task_id)
            IN  [task_id |-> task_id,
                 title |-> mine[1].title,
                 owner |-> mine[1].owner,
                 recommendations |-> [k \in 1..Len(mine) |->
                     [title |-> mine[k].recommendation_title,
                      type |-> mine[k].type,
                      priority |-> mine[k].priority,
                      rationale |-> mine[k].rationale,
                      expected_effect |-> mine[k].expected_effect]]]
    IN  [i \in 1..Len(keys) |-> Group(keys[i])]

load_risks(db, run_id) ==
    LET risk_rows == OfRun(db.risks, run_id)
    IN  [i \in 1..Len(risk_rows) |->
            [task_id |-> risk_rows[i].task_id,
             title |-> risk_rows[i].title,
             owner |-> risk_rows[i].owner,
             status |-> risk_rows[i].status,
             risk_level |-> risk_rows[i].risk_level,
             risk_score |-> risk_rows[i].risk_score,
             due_date |-> risk_rows[i].due_date,
             priority |-> risk_rows[i].priority,
             effort |-> risk_rows[i].effort,
             reasons |-> json_loads(risk_rows[i].reasons)]]

load_metrics(db, run_id) ==
    LET metric_rows == {r \in db.metrics : r.run_id = run_id}
        types == {r.metric_type : r \in metric_rows}
        Names(t) == {r.metric_name : r \in {x \in metric_rows : x.metric_type = t}}
        Value(t, n) == json_loads(
            (CHOOSE r \in metric_rows : r.metric_type = t /\ r.metric_name = n).metric_value)
    IN  [t \in types |-> [n \in Names(t) |-> Value(t, n)]]

None == [none |-> TRUE]

\* load_run builds a fresh WorkflowState: graph stays None
load_run(db, run_id) ==
    IF ~\E i \in 1..Len(db.runs) : db.runs[i].id = run_id THEN None
    ELSE LET run_row == db.runs[CHOOSE i \in 1..Len(db.runs) : db.runs[i].id = run_id]
         IN  WorkflowState(load_tasks(db, run_id),
                           NoGraph,
                           load_metrics(db, run_id),
                           load_bottlenecks(db, run_id),
                           load_recommendations(db, run_id),
                           load_risks(db, run_id),
                           run_row.run_report_md,
                           json_loads(run_row.settings),
                           run_row.timestamp)

(***************************************************************************)
(* State.  The fields of WorkflowState, the database, and the position of  *)
(* the caller in the pipeline.                                             *)
(***************************************************************************)
VARIABLES
    pc,               \* the next stage of the pipeline
    raw_csv,          \* WorkflowState.raw_csv, as the rows parse_csv reads from it
    rows,
    graph,
    metrics,
    emitted,          \* the bottlenecks of the last detection before the final sort
    bottlenecks,
    recommendations,
    risk_factors,     \* the factor values, score and level of every scored task
    risk_forecast,
    run_report_md,
    timestamp,
    settings,
    today,            \* datetime.now().date(), as a day number
    llm,              \* what the text generator did in the last recommendation stage
    db,
    run_id,           \* the id save_run returned
    loaded,           \* the state load_run returned
    executed          \* the stages run so far, each with whether it raised

vars == <<pc, raw_csv, rows, graph, metrics, emitted, bottlenecks, recommendations,
          risk_factors, risk_forecast, run_report_md, timestamp, settings, today,
          llm, db, run_id, loaded, executed>>

DefaultSettings == [due_soon_days |-> 7, aging_threshold |-> 5, owner_load_threshold |-> 5]

Ids == <<"A", "B", "C", "D", "E", "F">>

\* dependency lists of task i among n: none, the previous task (cyclically),
\* an id no task has with the previous and the next task
Prev(i, n) == Ids[IF i = 1 THEN n ELSE i - 1]
Succ(i, n) == Ids[IF i = n THEN 1 ELSE i + 1]
DepChoices(i, n) == {<<>>, <<Prev(i, n)>>, <<"Z", Prev(i, n), Succ(i, n)>>}

Profile(owner, status, priority, effort, start, due) ==
    [owner |-> owner, status |-> status, priority |-> priority, effort |-> effort,
     start |-> start, due |-> due]

Profiles ==
    {Profile("alice", "todo", "med", 3, NoDate, NoDate),
     Profile("bob", "in_progress", "high", 5, Date(-10), Date(-1)),
     Profile("carol", "done", "low", 1, Date(-6), BadDate)}

FromProfile(id, p, deps) ==
    Task(id, p.owner, p.status, p.priority, p.effort, p.start, p.due, deps)

\* the tasks with this id, one of these profiles and one of these dependency lists
TaskChoices(id, profiles, deps) ==
    UNION {{FromProfile(id, p, d) : p \in profiles} : d \in deps}

\* the sequences whose i-th element is drawn from the i-th set
RECURSIVE Product(_)
Product(sets) ==
    IF sets = <<>> THEN {<<>>}
    ELSE {Append(r, t) : r \in Product(SubSeq(sets, 1, Len(sets) - 1)),
                         t \in sets[Len(sets)]}

RowsOfLen(n) ==
    Product([i \in 1..n |-> TaskChoices(Ids[i], Profiles, DepChoices(i, n))])

\* two rows with the same task_id (ingestion keeps both)
DuplicateRows == {[r EXCEPT ![2].task_id = r[1].task_id] : r \in RowsOfLen(2)}

Inputs == UNION {RowsOfLen(n) : n \in 0..MaxTasks} \cup DuplicateRows

\* the files given to a whole run
RunInputs == UNION {RowsOfLen(n) : n \in 0..MaxRunTasks} \cup DuplicateRows

(***************************************************************************)
(* The components called one after the other by a caller that holds the   *)
(* task list: build_graph, compute_metrics, detect_bottlenecks,            *)
(* generate_recommendations, forecast_risks.  An exception ends the calls. *)
(***************************************************************************)
CallBuildGraph ==
    /\ pc = "build_graph"
    /\ graph' = build_graph(rows)
    /\ pc' = "compute_metrics"
    /\ UNCHANGED <<executed, raw_csv, rows, metrics, emitted, bottlenecks, recommendations,
                   risk_factors, risk_forecast, run_report_md, timestamp, settings,
                   today, llm, db, run_id, loaded>>

CallComputeMetrics ==
    /\ pc = "compute_metrics"
    /\ \E now \in ClockReadings(today), thrown \in UnguardedGroups \cup {"none"} :
          /\ metrics' = compute_metrics_with(graph, rows, settings, now, thrown).val
          /\ pc' = IF compute_metrics_with(graph, rows, settings, now, thrown).exc
                   THEN "raised" ELSE "detect_bottlenecks"
          /\ today' = IF GraphFalsy(graph) THEN today ELSE now[2]
    /\ UNCHANGED <<executed, raw_csv, rows, graph, emitted, bottlenecks, recommendations,
                   risk_factors, risk_forecast, run_report_md, timestamp, settings,
                   llm, db, run_id, loaded>>

\* the order in which a strongly connected component (a set) is listed is
\* not fixed by the code: any order can come out
CallDetectBottlenecks ==
    /\ pc = "detect_bottlenecks"
    /\ \E cycles \in circular_deps(graph) :
          /\ emitted' = IF GraphFalsy(graph) THEN <<>>
                        ELSE collect_bottlenecks(graph, rows, metrics, cycles)
          /\ bottlenecks' = detect_bottlenecks(graph, rows, metrics, cycles)
    /\ pc' = "generate_recommendations"
    /\ UNCHANGED <<executed, raw_csv, rows, graph, metrics, recommendations, risk_factors,
                   risk_forecast, run_report_md, timestamp, settings, today, llm,
                   db, run_id, loaded>>

CallGenerateRecommendations ==
    /\ pc = "generate_recommendations"
    /\ \E mode \in LlmModes :
          \E answer \in IF mode = "model" THEN ModelAnswers ELSE {<<>>} :
             /\ llm' = mode
             /\ recommendations' =
                    generate_recommendations(bottlenecks, rows, metrics, mode, answer)
    /\ pc' = "forecast_risks"
    /\ UNCHANGED <<executed, raw_csv, rows, graph, metrics, emitted, bottlenecks, risk_factors,
                   risk_forecast, run_report_md, timestamp, settings, today, db,
                   run_id, loaded>>

CallForecastRisks ==
    /\ pc = "forecast_risks"
    /\ risk_factors' = scored_factors(graph, rows, metrics, today)
    /\ risk_forecast' = forecast_risks(graph, rows, metrics, today)
    /\ pc' = "returned"
    /\ UNCHANGED <<executed, raw_csv, rows, graph, metrics, emitted, bottlenecks, recommendations,
                   run_report_md, timestamp, settings, today, llm, db, run_id, loaded>>

NextApi ==
    \/ CallBuildGraph
    \/ CallComputeMetrics
    \/ CallDetectBottlenecks
    \/ CallGenerateRecommendations
    \/ CallForecastRisks

\* a caller that holds the task list and nothing else yet
Called ==
    /\ pc = "build_graph"
    /\ raw_csv = None
    /\ graph = NoGraph
    /\ metrics = EmptyDict
    /\ emitted = <<>>
    /\ bottlenecks = <<>>
    /\ recommendations = <<>>
    /\ risk_factors = <<>>
    /\ risk_forecast = <<>>
    /\ run_report_md = <<>>
    /\ timestamp = None
    /\ settings = DefaultSettings
    /\ today = 0
    /\ llm = "no_module"
    /\ db = EmptyDb
    /\ run_id = 0
    /\ loaded = None
    /\ executed = <<>>

InitApi == rows \in Inputs /\ Called

SpecApi == InitApi /\ [][NextApi]_vars

(***************************************************************************)
(* Task lists for the scoring formulas: a first task whose fields vary,    *)
(* among up to MaxTasks - 1 others.                                        *)
(***************************************************************************)
Companion(owner, status, priority, effort, start, due, deps) ==
    [owner |-> owner, status |-> status, priority |-> priority, effort |-> effort,
     start |-> start, due |-> due, deps |-> deps]

\* the lists made of one of the subjects (task A) and of up to MaxTasks - 1
\* companions (tasks B, C, ...)
WithCompanions(subjects, companions) ==
    UNION {Product([i \in 1..n |->
                      IF i = 1 THEN subjects
                      ELSE {FromProfile(Ids[i], c, c.deps) : c \in companions}]) :
             n \in 1..MaxTasks}

\* aging: the subject has any start, priority and effort and may not be in
\* progress; the companions are in progress for 10 or 7 days, or have a
\* start date that does not parse
AgingSubjects ==
    {Task("A", "alice", st, p, e, start, NoDate, <<>>) :
        st \in {"in_progress", "todo"}, p \in {"high", "med", "low"},
        e \in {1, 3, 5}, start \in {Date(-10), Date(-6), Date(-5), NoDate}}

AgingCompanions ==
    {Companion("bob", "in_progress", "med", 3, Date(-10), NoDate, <<>>),
     Companion("bob", "in_progress", "high", 5, Date(-7), NoDate, <<>>),
     Companion("carol", "in_progress", "low", 4, BadDate, NoDate, <<>>)}

InitAging == rows \in WithCompanions(AgingSubjects, AgingCompanions) /\ Called

SpecAging == InitAging /\ [][NextApi]_vars

\* risk: the subject has any status, priority and effort, is overdue or has
\* no due date, and depends on nothing or on B; the companions are a loaded
\* owner's task, a blocked task of the subject's owner, a task that depends
\* on the subject and a done task
RiskSubjects ==
    {Task("A", "alice", st, p, e, NoDate, due, deps) :
        st \in {"todo", "blocked", "done"}, p \in {"high", "med", "low"},
        e \in {1, 5}, due \in {NoDate, Date(-1)}, deps \in {<<>>, <<"B">>}}

RiskCompanions ==
    {Companion("bob", "in_progress", "high", 5, Date(-10), Date(-1), <<>>),
     Companion("alice", "blocked", "med", 3, NoDate, NoDate, <<>>),
     Companion("carol", "todo", "med", 5, NoDate, NoDate, <<"A">>),
     Companion("carol", "done", "med", 1, NoDate, NoDate, <<>>)}

InitRisk == rows \in WithCompanions(RiskSubjects, RiskCompanions) /\ Called

SpecRisk == InitRisk /\ [][NextApi]_vars

\* deadlines: the subject is due on either side of every step of the
\* staircase, or has no due date, or one that does not parse
DeadlineSubjects ==
    {Task("A", "alice", st, p, 3, NoDate, due, <<>>) :
        st \in {"todo", "done"}, p \in {"high", "low"},
        due \in {NoDate, BadDate, Date(-2), Date(-1), Date(0), Date(3), Date(4),
                 Date(7), Date(8), Date(14), Date(15)}}

DeadlineCompanions ==
    {Companion("bob", "in_progress", "high", 5, Date(-10), Date(0), <<>>),
     Companion("alice", "todo", "med", 3, NoDate, Date(-1), <<>>)}

InitDeadline == rows \in WithCompanions(DeadlineSubjects, DeadlineCompanions) /\ Called

SpecDeadline == InitDeadline /\ [][NextApi]_vars

\* owner load: bob's subject is in progress or not, high or not, of effort 3
\* or 4; the companions give bob, alice and carol loads of 3, 3.5, 0 and 2
OverloadSubjects ==
    {Task("A", "bob", st, p, e, NoDate, NoDate, <<>>) :
        st \in {"in_progress", "todo"}, p \in {"high", "med"}, e \in {3, 4}}

OverloadCompanions ==
    {Companion("bob", "blocked", "high", 3, NoDate, NoDate, <<>>),
     Companion("alice", "in_progress", "high", 3, NoDate, NoDate, <<>>),
     Companion("alice", "todo", "med", 3, NoDate, NoDate, <<>>),
     Companion("carol", "in_progress", "med", 3, NoDate, NoDate, <<>>)}

InitOverload == rows \in WithCompanions(OverloadSubjects, OverloadCompanions) /\ Called

\* the overloaded_owner entry of a task, as a caller of
\* generate_recommendations holds it
overloaded_owner_bottleneck(task, m) ==
    LET owner_load == Get(m, "owner_load", EmptyDict)
        load_scores == Get(owner_load, "load_scores", EmptyDict)
        owner_stats == Get(owner_load, "owner_stats", EmptyDict)
        owners == Get(owner_load, "owners", <<>>)
        max_load == RMaxSeq([i \in 1..Len(owners) |-> load_scores[owners[i]]])
    IN  [task_id |-> task.task_id,
         title |-> task.title,
         owner |-> task.owner,
         type |-> "overloaded_owner",
         score |-> calculate_task_overload_score(task, load_scores[task.owner], max_load),
         reason |-> Reason("Owner is overloaded", load_scores[task.owner], <<>>),
         details |-> [owner_load_score |-> load_scores[task.owner],
                      owner_stats |-> owner_stats[task.owner],
                      task_priority |-> task.priority,
                      task_effort |-> task.effort,
                      task_status |-> task.status]]

\* generate_recommendations called with one overloaded_owner bottleneck of
\* the caller's choice
CallGenerateRecommendationsFor ==
    /\ pc = "detect_bottlenecks"
    /\ \E i \in 1..Len(rows), mode \in LlmModes :
          \E answer \in IF mode = "model" THEN ModelAnswers ELSE {<<>>} :
             /\ llm' = mode
             /\ bottlenecks' = <<overloaded_owner_bottleneck(
                                    task_lookup(rows)[rows[i].task_id], metrics)>>
             /\ recommendations' =
                    generate_recommendations(bottlenecks', rows, metrics, mode, answer)
    /\ pc' = "forecast_risks"
    /\ UNCHANGED <<executed, raw_csv, rows, graph, metrics, emitted, risk_factors,
                   risk_forecast, run_report_md, timestamp, settings, today, db,
                   run_id, loaded>>

NextOverload ==
    \/ CallBuildGraph
    \/ CallComputeMetrics
    \/ CallDetectBottlenecks
    \/ CallGenerateRecommendations
    \/ CallGenerateRecommendationsFor
    \/ CallForecastRisks

SpecOverload == InitOverload /\ [][NextOverload]_vars

\* Scenario A: MaxBob tasks of bob and one task of another owner, at any
\* place in the list, all todo, med, effort 3 and without dates; each task
\* but the first depends on nothing or on the one before it
ScenarioATask(i, other, deps) ==
    Task(Ids[i], IF i = other THEN "alice" ELSE "bob", "todo", "med", 3,
         NoDate, NoDate, deps)

ScenarioARows ==
    UNION {Product([i \in 1..(MaxBob + 1) |->
                      {ScenarioATask(i, other, d) :
                          d \in IF i = 1 THEN {<<>>} ELSE {<<>>, <<Ids[i - 1]>>}}]) :
             other \in 1..(MaxBob + 1)}

InitScenarioA == rows \in ScenarioARows /\ Called

SpecScenarioA == InitScenarioA /\ [][NextApi]_vars

\* settings: the subject is due in 2 or 5 days or never and may have been in
\* progress for 10 or 6 days; the three numbers of the settings form of the
\* interface each take a value at and off their default
SettingsSubjects ==
    {Task("A", "alice", st, "high", 4, start, due, <<>>) :
        st \in {"in_progress", "todo"},
        start \in {Date(-10), Date(-6), NoDate},
        due \in {Date(2), Date(5), NoDate}}

SettingsCompanions ==
    {Companion("bob", "in_progress", "med", 3, Date(-7), Date(0), <<>>),
     Companion("alice", "todo", "low", 2, NoDate, Date(4), <<>>)}

SettingsChoices ==
    [due_soon_days : {3, 7}, aging_threshold : {5, 6, 8}, owner_load_threshold : {3, 5}]

InitSettings ==
    /\ rows \in WithCompanions(SettingsSubjects, SettingsCompanions)
    /\ settings \in SettingsChoices
    /\ pc = "build_graph"
    /\ raw_csv = None
    /\ graph = NoGraph
    /\ metrics = EmptyDict
    /\ emitted = <<>>
    /\ bottlenecks = <<>>
    /\ recommendations = <<>>
    /\ risk_factors = <<>>
    /\ risk_forecast = <<>>
    /\ run_report_md = <<>>
    /\ timestamp = None
    /\ today = 0
    /\ llm = "no_module"
    /\ db = EmptyDb
    /\ run_id = 0
    /\ loaded = None
    /\ executed = <<>>

SpecSettings == InitSettings /\ [][NextApi]_vars

(***************************************************************************)
(* run_analysis: WorkflowOrchestrator.run_workflow runs the six nodes in   *)
(* order on a fresh WorkflowState, StorageManager.save_run stores the      *)
(* final state, and the stored run is loaded back.  A node that finds      *)
(* nothing to work on returns the state as it is.                          *)
(***************************************************************************)
\* a date that does not parse is read as no date
_extract_date(date_value) ==
    IF date_value.kind = "date" THEN date_value ELSE NoDate

\* effort is clamped to 1..5
_extract_effort(effort) ==
    IF effort < 1 THEN 1 ELSE IF effort > 5 THEN 5 ELSE effort

_parse_row(row) ==
    [row EXCEPT !.start_date = _extract_date(row.start_date),
                !.due_date = _extract_date(row.due_date),
                !.effort = _extract_effort(row.effort)]

\* one row per record of the file, in file order; nothing removes a record
\* whose task_id was already seen
parse_csv(csv_content) ==
    [i \in 1..Len(csv_content) |-> _parse_row(csv_content[i])]

\* a stage that has run, and whether its body raised an exception
Ran(node, raised) == [node |-> node, raised |-> raised]

\* the stage has run and its body raised an exception
RaisedIn(node) == \E i \in 1..Len(executed) : executed[i] = Ran(node, TRUE)

HasRun(node) == \E i \in 1..Len(executed) : executed[i].node = node

IngestParseNode_execute ==
    /\ rows' = IF Len(raw_csv) = 0 THEN <<>> ELSE parse_csv(raw_csv)
    /\ executed' = Append(executed, Ran("ingest_parse", FALSE))

IngestParse ==
    /\ pc = "ingest_parse"
    /\ IngestParseNode_execute
    /\ pc' = "node_build_graph"
    /\ UNCHANGED <<raw_csv, graph, metrics, emitted, bottlenecks, recommendations,
                   risk_factors, risk_forecast, run_report_md, timestamp, settings,
                   today, llm, db, run_id, loaded>>

\* a build stage whose except branch leaves the graph it built in the state
BuildGraphNode_execute_keeping_graph ==
    \E now \in ClockReadings(today), thrown \in UnguardedGroups \cup {"none"} :
       IF rows = <<>>
       THEN /\ executed' = Append(executed, Ran("build_graph", FALSE))
            /\ UNCHANGED <<graph, metrics, today>>
       ELSE /\ graph' = build_graph(rows)
            /\ metrics' =
                  compute_metrics_with(build_graph(rows), rows, settings, now, thrown).val
            /\ today' = now[2]
            /\ executed' =
                  Append(executed,
                         Ran("build_graph",
                             compute_metrics_with(build_graph(rows), rows, settings,
                                                  now, thrown).exc))

BuildGraphNode_execute ==
    \E now \in ClockReadings(today), thrown \in UnguardedGroups \cup {"none"} :
       IF rows = <<>>
       THEN /\ executed' = Append(executed, Ran("build_graph", FALSE))
            /\ UNCHANGED <<graph, metrics, today>>
       ELSE /\ graph' =
                  IF compute_metrics_with(build_graph(rows), rows, settings, now, thrown).exc
                  THEN NoGraph
                  ELSE build_graph(rows)
            /\ metrics' =
                  compute_metrics_with(build_graph(rows), rows, settings, now, thrown).val
            /\ today' = now[2]
            /\ executed' =
                  Append(executed,
                         Ran("build_graph",
                             compute_metrics_with(build_graph(rows), rows, settings,
                                                  now, thrown).exc))

BuildGraph ==
    /\ pc = "node_build_graph"
    /\ BuildGraphNode_execute
    /\ pc' = "node_detect_bottlenecks"
    /\ UNCHANGED <<raw_csv, rows, emitted, bottlenecks, recommendations, risk_factors,
                   risk_forecast, run_report_md, timestamp, settings, llm,
                   db, run_id, loaded>>

\* a detection stage without its try/except: what the body raises leaves
\* run_workflow
DetectBottlenecksUncaught ==
    /\ pc = "node_detect_bottlenecks"
    /\ \E cycles \in circular_deps(graph), raised \in BOOLEAN :
          IF GraphFalsy(graph) \/ rows = <<>>
          THEN /\ executed' = Append(executed, Ran("detect_bottlenecks", FALSE))
               /\ pc' = "node_recommend_actions"
               /\ UNCHANGED <<emitted, bottlenecks>>
          ELSE IF raised
          THEN /\ executed' = Append(executed, Ran("detect_bottlenecks", TRUE))
               /\ pc' = "raised"
               /\ UNCHANGED <<emitted, bottlenecks>>
          ELSE /\ executed' = Append(executed, Ran("detect_bottlenecks", FALSE))
               /\ pc' = "node_recommend_actions"
               /\ emitted' = collect_bottlenecks(graph, rows, metrics, cycles)
               /\ bottlenecks' = detect_bottlenecks(graph, rows, metrics, cycles)
    /\ UNCHANGED <<raw_csv, rows, graph, metrics, recommendations, risk_factors,
                   risk_forecast, run_report_md, timestamp, settings, today, llm,
                   db, run_id, loaded>>

\* the body of a stage runs inside "try: ... except Exception": whatever it
\* raises ends the body and sets the stage's output to the empty list
DetectBottlenecksNode_execute ==
    \E cycles \in circular_deps(graph), raised \in BOOLEAN :
       IF GraphFalsy(graph) \/ rows = <<>>
       THEN /\ executed' = Append(executed, Ran("detect_bottlenecks", FALSE))
            /\ UNCHANGED <<emitted, bottlenecks>>
       ELSE IF raised
       THEN /\ executed' = Append(executed, Ran("detect_bottlenecks", TRUE))
            /\ bottlenecks' = <<>>
            /\ UNCHANGED emitted
       ELSE /\ executed' = Append(executed, Ran("detect_bottlenecks", FALSE))
            /\ emitted' = collect_bottlenecks(graph, rows, metrics, cycles)
            /\ bottlenecks' = detect_bottlenecks(graph, rows, metrics, cycles)

DetectBottlenecks ==
    /\ pc = "node_detect_bottlenecks"
    /\ DetectBottlenecksNode_execute
    /\ pc' = "node_recommend_actions"
    /\ UNCHANGED <<raw_csv, rows, graph, metrics, recommendations, risk_factors,
                   risk_forecast, run_report_md, timestamp, settings, today, llm,
                   db, run_id, loaded>>

RecommendActionsNode_execute ==
    \E mode \in LlmModes, raised \in BOOLEAN :
       \E answer \in IF mode = "model" THEN ModelAnswers ELSE {<<>>} :
          IF bottlenecks = <<>>
          THEN /\ executed' = Append(executed, Ran("recommend_actions", FALSE))
               /\ UNCHANGED <<llm, recommendations>>
          ELSE IF raised
          THEN /\ executed' = Append(executed, Ran("recommend_actions", TRUE))
               /\ recommendations' = <<>>
               /\ UNCHANGED llm
          ELSE /\ executed' = Append(executed, Ran("recommend_actions", FALSE))
               /\ llm' = mode
               /\ recommendations' =
                     generate_recommendations(bottlenecks, rows, metrics, mode, answer)

RecommendActions ==
    /\ pc = "node_recommend_actions"
    /\ RecommendActionsNode_execute
    /\ pc' = "node_forecast_risks"
    /\ UNCHANGED <<raw_csv, rows, graph, metrics, emitted, bottlenecks, risk_factors,
                   risk_forecast, run_report_md, timestamp, settings, today, db,
                   run_id, loaded>>

\* a forecast stage without its try/except: what the body raises leaves
\* run_workflow before the report stage
ForecastRisksUncaught ==
    /\ pc = "node_forecast_risks"
    /\ \E raised \in BOOLEAN :
          IF GraphFalsy(graph) \/ rows = <<>>
          THEN /\ executed' = Append(executed, Ran("forecast_risks", FALSE))
               /\ pc' = "node_package_report"
               /\ UNCHANGED <<risk_factors, risk_forecast>>
          ELSE IF raised
          THEN /\ executed' = Append(executed, Ran("forecast_risks", TRUE))
               /\ pc' = "raised"
               /\ UNCHANGED <<risk_factors, risk_forecast>>
          ELSE /\ executed' = Append(executed, Ran("forecast_risks", FALSE))
               /\ pc' = "node_package_report"
               /\ risk_factors' = scored_factors(graph, rows, metrics, today)
               /\ risk_forecast' = forecast_risks(graph, rows, metrics, today)
    /\ UNCHANGED <<raw_csv, rows, graph, metrics, emitted, bottlenecks, recommendations,
                   run_report_md, timestamp, settings, today, llm, db, run_id, loaded>>

\* a forecast stage that leaves out the tasks already reported as bottlenecks
ForecastRisksNode_execute_after_detect ==
    \E raised \in BOOLEAN :
       IF GraphFalsy(graph) \/ rows = <<>>
       THEN /\ executed' = Append(executed, Ran("forecast_risks", FALSE))
            /\ UNCHANGED <<risk_factors, risk_forecast>>
       ELSE IF raised
       THEN /\ executed' = Append(executed, Ran("forecast_risks", TRUE))
            /\ risk_forecast' = <<>>
            /\ UNCHANGED risk_factors
       ELSE /\ executed' = Append(executed, Ran("forecast_risks", FALSE))
            /\ risk_factors' = scored_factors(graph, rows, metrics, today)
            /\ risk_forecast' =
                  LET flagged(entry) ==
                          \E i \in 1..Len(bottlenecks) :
                              bottlenecks[i].task_id = entry.task_id
                      unflagged(entry) == ~flagged(entry)
                  IN SelectSeq(forecast_risks(graph, rows, metrics, today), unflagged)

ForecastRisksNode_execute ==
    \E raised \in BOOLEAN :
       IF GraphFalsy(graph) \/ rows = <<>>
       THEN /\ executed' = Append(executed, Ran("forecast_risks", FALSE))
            /\ UNCHANGED <<risk_factors, risk_forecast>>
       ELSE IF raised
       THEN /\ executed' = Append(executed, Ran("forecast_risks", TRUE))
            /\ risk_forecast' = <<>>
            /\ UNCHANGED risk_factors
       ELSE /\ executed' = Append(executed, Ran("forecast_risks", FALSE))
            /\ risk_factors' = scored_factors(graph, rows, metrics, today)
            /\ risk_forecast' = forecast_risks(graph, rows, metrics, today)

ForecastRisks ==
    /\ pc = "node_forecast_risks"
    /\ ForecastRisksNode_execute
    /\ pc' = "node_package_report"
    /\ UNCHANGED <<raw_csv, rows, graph, metrics, emitted, bottlenecks, recommendations,
                   run_report_md, timestamp, settings, today, llm, db, run_id, loaded>>

\* the report text, as the sequence of what is written into it: the empty
\* text "" is <<>>, a report is one block made of the collections it is
\* written from
generate_full_report(state) ==
    <<[tasks |-> Len(state.rows),
       bottlenecks |-> state.bottlenecks,
       recommendations |-> state.recommendations,
       risks |-> state.risk_forecast]>>

CurrentState ==
    WorkflowState(rows, graph, metrics, bottlenecks, recommendations, risk_forecast,
                  run_report_md, settings, timestamp)

PackageReportNode_execute ==
    /\ run_report_md' = generate_full_report(CurrentState)
    /\ timestamp' = [day |-> today]
    /\ executed' = Append(executed, Ran("package_report", FALSE))

\* a report stage that empties the metrics bundle once it has written it out
PackageReportConsumingMetrics ==
    /\ pc = "node_package_report"
    /\ PackageReportNode_execute
    /\ metrics' = EmptyDict
    /\ pc' = "save_run"
    /\ UNCHANGED <<raw_csv, rows, graph, emitted, bottlenecks, recommendations,
                   risk_factors, risk_forecast, settings, today, llm, db, run_id, loaded>>

PackageReport ==
    /\ pc = "node_package_report"
    /\ PackageReportNode_execute
    /\ pc' = "save_run"
    /\ UNCHANGED <<raw_csv, rows, graph, metrics, emitted, bottlenecks, recommendations,
                   risk_factors, risk_forecast, settings, today, llm, db, run_id, loaded>>

\* save_run either commits and returns the run id, or one of its steps
\* raises and what its except branch raises leaves save_run
SaveRun ==
    /\ pc = "save_run"
    /\ \E failing \in Range(SaveSteps) \cup {"none"} :
          IF failing = "none"
          THEN /\ db' = save_run(db, CurrentState).db
               /\ run_id' = save_run(db, CurrentState).run_id
               /\ pc' = "load_run"
          ELSE /\ step_runs(CurrentState, failing)
               /\ db' = save_run_except(db, CurrentState, failing).db
               /\ run_id' = run_id
               /\ pc' = IF save_run_except(db, CurrentState, failing).raises = "error"
                        THEN "save_run_raised"
                        ELSE "save_run_raised_unbound"
    /\ UNCHANGED <<executed, raw_csv, rows, graph, metrics, emitted, bottlenecks, recommendations,
                   risk_factors, risk_forecast, run_report_md, timestamp, settings,
                   today, llm, loaded>>

LoadRun ==
    /\ pc = "load_run"
    /\ loaded' = load_run(db, run_id)
    /\ pc' = "done"
    /\ UNCHANGED <<executed, raw_csv, rows, graph, metrics, emitted, bottlenecks, recommendations,
                   risk_factors, risk_forecast, run_report_md, timestamp, settings,
                   today, llm, db, run_id>>

Next ==
    \/ IngestParse
    \/ BuildGraph
    \/ DetectBottlenecks
    \/ RecommendActions
    \/ ForecastRisks
    \/ PackageReport
    \/ SaveRun
    \/ LoadRun

\* a database that already holds one run, of one task that is a bottleneck
PriorRows == <<Task("P", "pat", "in_progress", "high", 5, Date(-10), Date(-1), <<>>)>>

PriorMetrics ==
    compute_metrics(build_graph(PriorRows), PriorRows, DefaultSettings, <<0, 0>>).val

PriorBottlenecks == detect_bottlenecks(build_graph(PriorRows), PriorRows, PriorMetrics, <<>>)

PriorDb ==
    save_run(EmptyDb,
             WorkflowState(PriorRows, build_graph(PriorRows), PriorMetrics,
                           PriorBottlenecks,
                           generate_recommendations(PriorBottlenecks, PriorRows,
                                                    PriorMetrics, "no_module", <<>>),
                           forecast_risks(build_graph(PriorRows), PriorRows,
                                          PriorMetrics, 0),
                           <<>>, DefaultSettings, [day |-> 0])).db

Init ==
    /\ pc = "ingest_parse"
    /\ raw_csv \in RunInputs
    /\ rows = <<>>
    /\ graph = NoGraph
    /\ metrics = EmptyDict
    /\ emitted = <<>>
    /\ bottlenecks = <<>>
    /\ recommendations = <<>>
    /\ risk_factors = <<>>
    /\ risk_forecast = <<>>
    /\ run_report_md = <<>>
    /\ timestamp = None
    /\ settings = DefaultSettings
    /\ today = 0
    /\ llm = "no_module"
    /\ db \in {EmptyDb, PriorDb}
    /\ run_id = 0
    /\ loaded = None
    /\ executed = <<>>

Spec == Init /\ [][Next]_vars

\* the successors of each stage in the workflow graph of the orchestrator
workflow ==
    [ingest_parse |-> {"build_graph"},
     build_graph |-> {"detect_bottlenecks", "forecast_risks"},
     detect_bottlenecks |-> {"recommend_actions"},
     recommend_actions |-> {"package_report"},
     forecast_risks |-> {"package_report"}]

\* the stage has not run and every stage it succeeds has
Ready(node) ==
    /\ ~HasRun(node)
    /\ \A before \in DOMAIN workflow : node \in workflow[before] => HasRun(before)

\* the stages run in any order the workflow graph allows: detect and forecast
\* in either order after build, recommend after detect, before or after forecast
IngestParseAnyOrder ==
    /\ pc = "workflow"
    /\ Ready("ingest_parse")
    /\ IngestParseNode_execute
    /\ UNCHANGED <<pc, raw_csv, graph, metrics, emitted, bottlenecks, recommendations,
                   risk_factors, risk_forecast, run_report_md, timestamp, settings,
                   today, llm, db, run_id, loaded>>

BuildGraphAnyOrder ==
    /\ pc = "workflow"
    /\ Ready("build_graph")
    /\ BuildGraphNode_execute
    /\ UNCHANGED <<pc, raw_csv, rows, emitted, bottlenecks, recommendations, risk_factors,
                   risk_forecast, run_report_md, timestamp, settings, llm,
                   db, run_id, loaded>>

DetectBottlenecksAnyOrder ==
    /\ pc = "workflow"
    /\ Ready("detect_bottlenecks")
    /\ DetectBottlenecksNode_execute
    /\ UNCHANGED <<pc, raw_csv, rows, graph, metrics, recommendations, risk_factors,
                   risk_forecast, run_report_md, timestamp, settings, today, llm,
                   db, run_id, loaded>>

RecommendActionsAnyOrder ==
    /\ pc = "workflow"
    /\ Ready("recommend_actions")
    /\ RecommendActionsNode_execute
    /\ UNCHANGED <<pc, raw_csv, rows, graph, metrics, emitted, bottlenecks, risk_factors,
                   risk_forecast, run_report_md, timestamp, settings, today, db,
                   run_id, loaded>>

ForecastRisksAnyOrder ==
    /\ pc = "workflow"
    /\ Ready("forecast_risks")
    /\ ForecastRisksNode_execute
    /\ UNCHANGED <<pc, raw_csv, rows, graph, metrics, emitted, bottlenecks,
                   recommendations, run_report_md, timestamp, settings, today, llm, db,
                   run_id, loaded>>

PackageReportAnyOrder ==
    /\ pc = "workflow"
    /\ Ready("package_report")
    /\ PackageReportNode_execute
    /\ pc' = "returned"
    /\ UNCHANGED <<raw_csv, rows, graph, metrics, emitted, bottlenecks, recommendations,
                   risk_factors, risk_forecast, settings, today, llm, db, run_id, loaded>>

NextAnyOrder ==
    \/ IngestParseAnyOrder
    \/ BuildGraphAnyOrder
    \/ DetectBottlenecksAnyOrder
    \/ RecommendActionsAnyOrder
    \/ ForecastRisksAnyOrder
    \/ PackageReportAnyOrder

InitAnyOrder ==
    /\ pc = "workflow"
    /\ raw_csv \in RunInputs
    /\ rows = <<>>
    /\ graph = NoGraph
    /\ metrics = EmptyDict
    /\ emitted = <<>>
    /\ bottlenecks = <<>>
    /\ recommendations = <<>>
    /\ risk_factors = <<>>
    /\ risk_forecast = <<>>
    /\ run_report_md = <<>>
    /\ timestamp = None
    /\ settings = DefaultSettings
    /\ today = 0
    /\ llm = "no_module"
    /\ db = EmptyDb
    /\ run_id = 0
    /\ loaded = None
    /\ executed = <<>>

SpecAnyOrder == InitAnyOrder /\ [][NextAnyOrder]_vars

\* the run is at a call of run_analysis and moves on to another label
Proceed ==
    /\ pc \in {"ingest_parse", "node_build_graph", "node_detect_bottlenecks",
               "node_recommend_actions", "node_forecast_risks", "node_package_report",
               "save_run", "load_run"}
    /\ pc' \in {"node_build_graph", "node_detect_bottlenecks", "node_recommend_actions",
                 "node_forecast_risks", "node_package_report", "save_run", "load_run",
                 "done"} \ {pc}

\* run_workflow, save_run and load_run are straight-line calls in one thread,
\* and every stage body loops over finite lists only: the thread does not
\* stop before the last call has returned
SpecLive == Init /\ [][Next]_vars /\ WF_pc(Proceed)

(***************************************************************************)
(* Properties of the component calls.                                      *)
(***************************************************************************)
Detected == pc \in {"generate_recommendations", "forecast_risks", "returned"}

DetectorOrder ==
    <<"high_betweenness", "overloaded_owner", "aging_task", "dependency_chokepoint",
      "critical_path", "circular_dependency">>

TypeRank(type) == CHOOSE k \in 1..Len(DetectorOrder) : DetectorOrder[k] = type

HasTaskId(id) == \E i \in 1..Len(rows) : rows[i].task_id = id

OfType(bs, type) == SelectSeq(bs, LAMBDA b : b.type = type)

\* C1: for a non-empty task set the list detect_bottlenecks returns is in
\* non-increasing order of score, and the bottlenecks of any one score are in
\* the order they were emitted in, the six detectors having emitted in the
\* order high_betweenness, overloaded_owner, aging_task,
\* dependency_chokepoint, critical_path, circular_dependency.
C1_SortedByScoreTiesInEmissionOrder ==
    (Detected /\ rows # <<>>) =>
        /\ Len(bottlenecks) = Len(emitted)
        /\ \A i \in 1..(Len(bottlenecks) - 1) :
              RLe(bottlenecks[i + 1].score, bottlenecks[i].score)
        /\ \A i \in 1..Len(emitted) :
              SelectSeq(bottlenecks, LAMBDA b : b.score = emitted[i].score)
                = SelectSeq(emitted, LAMBDA b : b.score = emitted[i].score)
        /\ \A i, j \in 1..Len(emitted) :
              i < j => TypeRank(emitted[i].type) <= TypeRank(emitted[j].type)

\* a detection whose sort moved entries and left two entries of equal score
\* and different types next to each other
C1_Witness ==
    /\ Detected
    /\ Len(bottlenecks) >= 3
    /\ bottlenecks # emitted
    /\ \E i \in 1..(Len(bottlenecks) - 1) :
          /\ bottlenecks[i].score = bottlenecks[i + 1].score
          /\ bottlenecks[i].type # bottlenecks[i + 1].type

\* C2: for a non-empty task set, with the graph and the metrics built from
\* that task set, every bottleneck detect_bottlenecks returns, whatever its
\* type, carries the task_id of an input task.
C2_BottleneckTaskIdsAreInputTasks ==
    (Detected /\ rows # <<>>) =>
        \A i \in 1..Len(bottlenecks) : HasTaskId(bottlenecks[i].task_id)

\* a detection with an aging_task and a circular_dependency bottleneck over
\* a task list that names a dependency no task has
C2_Witness ==
    /\ Detected
    /\ OfType(bottlenecks, "aging_task") # <<>>
    /\ OfType(bottlenecks, "circular_dependency") # <<>>
    /\ \E i \in 1..Len(rows) : "Z" \in Range(rows[i].dependency_ids)

\* C4: on a task list of size 0 no stage raises, and the calls end with a
\* graph without nodes or edges, no metrics group, no bottleneck, no
\* recommendation group and no risk entry.
C4_EmptyTaskListRunsClean ==
    rows = <<>> =>
        /\ pc # "raised"
        /\ graph.nodes = <<>> /\ graph.edges = {}
        /\ metrics = EmptyDict
        /\ bottlenecks = <<>>
        /\ recommendations = <<>>
        /\ risk_forecast = <<>>

\* the five calls made on the empty task list
C4_Witness == rows = <<>> /\ pc = "returned" /\ graph.built

\* Scenario C: three tasks, each depending on the previous one cyclically,
\* so that the graph is the cycle C -> A -> B -> C
ScenarioC ==
    /\ Len(rows) = 3
    /\ \A i \in 1..3 : rows[i].task_id = Ids[i] /\ rows[i].dependency_ids = <<Prev(i, 3)>>

\* the ids, read cyclically, follow the edges of the graph
FollowsEdges(ids, g) ==
    \A k \in 1..Len(ids) : <<ids[k], ids[(k % Len(ids)) + 1]>> \in g.edges

\* C5: on the three-task cycle detect_bottlenecks emits one
\* circular_dependency bottleneck per task, each of score 0.8 and with a
\* reason that lists the three task ids in cycle order.
C5_CycleReasonInCycleOrder ==
    (Detected /\ ScenarioC) =>
        /\ \A i \in 1..3 :
              Len(SelectSeq(OfType(bottlenecks, "circular_dependency"),
                            LAMBDA b : b.task_id = Ids[i])) = 1
        /\ \A i \in 1..Len(bottlenecks) :
              bottlenecks[i].type = "circular_dependency" =>
                 /\ bottlenecks[i].score = R(8, 10)
                 /\ Range(bottlenecks[i].reason.ids) = {"A", "B", "C"}
                 /\ FollowsEdges(bottlenecks[i].reason.ids, graph)

Returned == pc = "returned"

\* the rows with this task_id (one row in the task lists explored here)
RowsOf(id) == SelectSeq(rows, LAMBDA r : r.task_id = id)

Reported(id) == \E i \in 1..Len(risk_forecast) : risk_forecast[i].task_id = id

\* C3: every entry forecast_risks returns belongs to a task that is not done
\* and has a risk_score strictly above 0.3; a task that scores 0.3 or less
\* is not reported, whatever its status or priority.
C3_ReportedRisksNotDoneAndAboveThreshold ==
    Returned =>
        /\ \A i \in 1..Len(risk_forecast) :
              /\ risk_forecast[i].status # "done"
              /\ RLt(R(3, 10), risk_forecast[i].risk_score)
              /\ \A k \in 1..Len(rows) :
                    rows[k].task_id = risk_forecast[i].task_id => rows[k].status # "done"
        /\ \A i \in 1..Len(risk_factors) :
              RLe(risk_factors[i].risk_score, R(3, 10)) => ~Reported(risk_factors[i].task_id)

\* a forecast that reports a task, leaves out a task scoring exactly 0.3
\* and leaves out a done task
C3_Witness ==
    /\ Returned
    /\ risk_forecast # <<>>
    /\ \E i \in 1..Len(risk_factors) :
          risk_factors[i].risk_score = R(3, 10) /\ ~Reported(risk_factors[i].task_id)
    /\ \E k \in 1..Len(rows) : rows[k].status = "done" /\ ~Reported(rows[k].task_id)

\* the tasks _compute_aging_metrics flags: in progress, with a start date
\* that parses, for more days than the aging threshold
Flagged(r) ==
    /\ r.status = "in_progress"
    /\ r.start_date.kind = "date"
    /\ today - r.start_date.day > settings.aging_threshold

C6_PriorityWeight(priority) ==
    CASE priority = "high" -> R(15, 10)
      [] priority = "med" -> R(10, 10)
      [] priority = "low" -> R(7, 10)

C6_MaxDays ==
    CHOOSE m \in {today - rows[k].start_date.day : k \in {j \in 1..Len(rows) : Flagged(rows[j])}} :
        \A k \in 1..Len(rows) : Flagged(rows[k]) => today - rows[k].start_date.day <= m

\* C6: the aging_task bottlenecks are those of the flagged tasks, and the
\* score of each is min(days_in_progress / max_days, 1) x priority weight
\* (high 1.5, med 1.0, low 0.7) x effort / 5, max_days being the largest
\* days_in_progress among the flagged tasks; the product is not capped.
C6_AgingScoreFormulaUncapped ==
    Detected =>
        /\ \A k \in 1..Len(rows) :
              Len(SelectSeq(OfType(bottlenecks, "aging_task"),
                            LAMBDA b : b.task_id = rows[k].task_id))
                = IF Flagged(rows[k]) THEN 1 ELSE 0
        /\ \A i \in 1..Len(bottlenecks) :
              bottlenecks[i].type = "aging_task" =>
                 LET r == RowsOf(bottlenecks[i].task_id)[1]
                     days == today - r.start_date.day
                 IN  bottlenecks[i].score =
                        RMul(RMul(RMin(R(days, C6_MaxDays), ROne),
                                  C6_PriorityWeight(r.priority)),
                             R(r.effort, 5))

\* a task of effort 5 and priority high at the largest duration scored 1.5,
\* next to a flagged task of a shorter duration
C6_Witness ==
    /\ Detected
    /\ \E i, j \in 1..Len(bottlenecks) :
          /\ bottlenecks[i].type = "aging_task"
          /\ bottlenecks[i].score = R(3, 2)
          /\ bottlenecks[i].details.effort = 5
          /\ bottlenecks[i].details.priority = "high"
          /\ bottlenecks[j].type = "aging_task"
          /\ bottlenecks[j].details.days_in_progress
                < bottlenecks[i].details.days_in_progress

\* a scored task that is blocked and that no task depends on
BlockedLeaf(f) ==
    /\ RowsOf(f.task_id)[1].status = "blocked"
    /\ Succs(graph, f.task_id) = {}

C8_Staircase(due) ==
    IF due.kind # "date" THEN RZero
    ELSE IF due.day - today < 0 THEN R(10, 10)
    ELSE IF due.day - today \in 0..3 THEN R(9, 10)
    ELSE IF due.day - today \in 4..7 THEN R(7, 10)
    ELSE IF due.day - today \in 8..14 THEN R(4, 10)
    ELSE R(1, 10)

C9_BobFlaggedOverloaded ==
    Detected =>
        /\ \E i \in 1..Len(bottlenecks) :
              bottlenecks[i].type = "overloaded_owner" /\ bottlenecks[i].owner = "bob"
        /\ \A i \in 1..Len(bottlenecks) :
              bottlenecks[i].type = "overloaded_owner" => bottlenecks[i].owner = "bob"

\* C9: in Scenario A every owner's load score is 0, the number of tasks of
\* an owner not being part of it, and detect_bottlenecks emits no
\* overloaded_owner bottleneck, for bob's tasks or any other.
C9_NoOwnerFlaggedOverloaded ==
    Detected =>
        /\ \A o \in DOMAIN metrics.owner_load.load_scores :
              metrics.owner_load.load_scores[o] = RZero
        /\ OfType(bottlenecks, "overloaded_owner") = <<>>

\* a detection over MaxBob tasks of bob and one of alice
C9_Witness ==
    /\ Detected
    /\ metrics.owner_load.owner_stats["bob"].total_tasks = MaxBob
    /\ metrics.owner_load.owner_stats["alice"].total_tasks = 1
    /\ bottlenecks # <<>>

\* C10: for a completed run, load_run of the id save_run returned gives
\* tasks, bottlenecks, risk entries and recommendation groups equal to the
\* saved ones: same elements, same fields, same order.
C10_SaveLoadRoundTrip ==
    pc = "done" =>
        /\ loaded # None
        /\ loaded.rows = rows
        /\ loaded.bottlenecks = bottlenecks
        /\ loaded.risk_forecast = risk_forecast
        /\ loaded.recommendations = recommendations

\* the metrics bundle has been computed by the component calls
MetricsComputed == pc \in {"detect_bottlenecks", "generate_recommendations",
                           "forecast_risks", "returned"}

\* C11: the metrics bundle one call of compute_metrics returns is the bundle
\* of a single "now": there is one day against which both the owner-load
\* due-soon/overdue counts and the aging days-in-progress were measured.
C11_MetricsOfOneNow ==
    MetricsComputed =>
        \E d \in {today - 1, today} :
            metrics = compute_metrics(graph, rows, settings, <<d, d>>).val

\* generate_recommendations has returned to the caller
Recommended == pc \in {"forecast_risks", "returned"}

\* the rule-based candidates of the i-th bottleneck
RuleCandidates(i) ==
    generate_rule_based_recommendations(bottlenecks[i],
                                        task_lookup(rows)[bottlenecks[i].task_id],
                                        rows, metrics)

\* the candidate lists the text generator can have contributed
GeneratedCandidates ==
    {generate_llm_recommendations(llm, answer) :
        answer \in IF llm = "model" THEN ModelAnswers ELSE {<<>>}}

\* C12: each group's recommendations are the first 3 of the rule-based
\* candidates followed by the generated candidates, without the candidates
\* whose (title, type) occurred earlier in that list.
C12_RuleBasedBeforeGenerated ==
    Recommended =>
        \A i \in 1..Len(recommendations) :
            \E generated \in GeneratedCandidates :
                recommendations[i].recommendations =
                    FirstN(deduplicate_recommendations(RuleCandidates(i) \o generated), 3)

\* C13: when the text generator is unavailable (its module is missing, or
\* no model is loaded) or its call fails, it contributes no candidate: every
\* group holds the first 3 of its bottleneck's rule-based candidates only.
C13_UnavailableGeneratorContributesNothing ==
    (Recommended /\ llm \in {"no_module", "fallback"}) =>
        \A i \in 1..Len(recommendations) :
            recommendations[i].recommendations =
                FirstN(deduplicate_recommendations(RuleCandidates(i)), 3)

\* the labels of a run that goes on: a stage is next, or run_workflow has
\* returned its state to run_analysis
RunGoesOn == pc \in {"node_recommend_actions", "node_forecast_risks",
                     "node_package_report", "save_run", "load_run", "done",
                     "save_run_raised", "save_run_raised_unbound"}

WorkflowReturned ==
    pc \in {"save_run", "load_run", "done", "save_run_raised", "save_run_raised_unbound"}

\* C14: an exception raised in the detect, recommend or forecast stage is
\* caught there: that stage's output is empty (and so are the
\* recommendations when detection raised), the run goes on, and when
\* run_workflow returns, the later stages have run: a forecast that did not
\* raise has its usual entries and the report is stamped.
C14_StageExceptionContained ==
    /\ RaisedIn("detect_bottlenecks") => (bottlenecks = <<>> /\ recommendations = <<>>)
    /\ RaisedIn("recommend_actions") => recommendations = <<>>
    /\ RaisedIn("forecast_risks") => risk_forecast = <<>>
    /\ (RaisedIn("detect_bottlenecks") \/ RaisedIn("recommend_actions")
           \/ RaisedIn("forecast_risks")) =>
          /\ RunGoesOn
          /\ WorkflowReturned =>
                /\ HasRun("recommend_actions")
                /\ HasRun("forecast_risks")
                /\ HasRun("package_report")
                /\ ~RaisedIn("forecast_risks") =>
                      risk_forecast = forecast_risks(graph, rows, metrics, today)

\* detection raised, and the run ended with risk entries and a report
C14_Witness ==
    /\ pc = "done"
    /\ RaisedIn("detect_bottlenecks")
    /\ risk_forecast # <<>>
    /\ timestamp # None

\* the six stages of run_workflow
StageNames == {"ingest_parse", "build_graph", "detect_bottlenecks",
               "recommend_actions", "forecast_risks", "package_report"}

TimesRun(node) == Cardinality({i \in 1..Len(executed) : executed[i].node = node})

\* whenever stage b has run, stage a has run before it
RunsBefore(a, b) ==
    \A j \in 1..Len(executed) :
        executed[j].node = b => \E i \in 1..(j - 1) : executed[i].node = a

StagesInOrder ==
    /\ \A node \in StageNames : TimesRun(node) <= 1
    /\ RunsBefore("ingest_parse", "build_graph")
    /\ RunsBefore("build_graph", "detect_bottlenecks")
    /\ RunsBefore("build_graph", "forecast_risks")
    /\ RunsBefore("detect_bottlenecks", "recommend_actions")
    /\ RunsBefore("recommend_actions", "package_report")
    /\ RunsBefore("forecast_risks", "package_report")

AllStagesRun == \A node \in StageNames : TimesRun(node) = 1

\* C15: in every run, whether or not a stage raised, no stage runs twice,
\* build runs before detect and before forecast, recommend runs only after
\* detect, the report stage runs after recommend and forecast, and the run
\* eventually has executed each of the six stages exactly once.
C15_EveryStageOnceInOrder == [](StagesInOrder) /\ <>[](AllStagesRun)

\* a run that has reached the report stage although detection and the
\* forecast both raised
C15_Witness ==
    /\ AllStagesRun
    /\ executed[6].node = "package_report"
    /\ RaisedIn("detect_bottlenecks")
    /\ RaisedIn("forecast_risks")

RanClean(node) == \E i \in 1..Len(executed) : executed[i] = Ran(node, FALSE)

\* the build stage left a graph and rows for the later stages to work on
Analysable == ~GraphFalsy(graph) /\ rows # <<>>

\* C16: in whatever order the workflow graph lets detect, recommend and
\* forecast run, the bottlenecks are those detection computes from graph,
\* rows and metrics alone and the risk entries those the forecast computes
\* from them alone; until a stage has run its output is still empty.
C16_DetectAndForecastIndependent ==
    /\ ~HasRun("detect_bottlenecks") => bottlenecks = <<>>
    /\ ~HasRun("forecast_risks") => risk_forecast = <<>>
    /\ (RanClean("detect_bottlenecks") /\ Analysable) =>
          \E cycles \in circular_deps(graph) :
              bottlenecks = detect_bottlenecks(graph, rows, metrics, cycles)
    /\ (RanClean("forecast_risks") /\ Analysable) =>
          risk_forecast = forecast_risks(graph, rows, metrics, today)

\* the forecast ran before detection, recommend ran last, and both outputs
\* are non-empty
C16_Witness ==
    /\ Len(executed) = 5
    /\ executed[3] = Ran("forecast_risks", FALSE)
    /\ executed[4] = Ran("detect_bottlenecks", FALSE)
    /\ executed[5] = Ran("recommend_actions", FALSE)
    /\ bottlenecks # <<>>
    /\ risk_forecast # <<>>
    /\ recommendations # <<>>

\* C17: once the ingest stage has run no step changes the task records, and
\* once the build stage has run no step (detect, recommend, forecast,
\* report, save, load) changes the graph or the metrics bundle.
C17_LaterStagesLeaveInputsAlone ==
    [][/\ HasRun("ingest_parse") => rows' = rows
       /\ HasRun("build_graph") => (graph' = graph /\ metrics' = metrics)]_vars

\* a finished run in which every later stage had work to do on the graph
C17_Witness ==
    /\ pc = "done"
    /\ Analysable
    /\ metrics # EmptyDict
    /\ RanClean("detect_bottlenecks") /\ bottlenecks # <<>>
    /\ RanClean("recommend_actions") /\ recommendations # <<>>
    /\ RanClean("forecast_risks") /\ risk_forecast # <<>>
    /\ run_report_md # <<>>

\* the two settings differ in the one option named and in nothing else
DiffersOnlyIn(s, t, key) == s[key] # t[key] /\ \A k \in DOMAIN s \ {key} : s[k] = t[k]

\* what the four calls return for a metrics bundle m
ResultsOf(m, cycles, answer) ==
    [metrics |-> m,
     bottlenecks |-> detect_bottlenecks(graph, rows, m, cycles),
     risk_forecast |-> forecast_risks(graph, rows, m, today),
     recommendations |->
         generate_recommendations(detect_bottlenecks(graph, rows, m, cycles),
                                  rows, m, llm, answer)]

Observed ==
    [metrics |-> metrics, bottlenecks |-> bottlenecks, risk_forecast |-> risk_forecast,
     recommendations |-> recommendations]

\* results with the configured aging threshold, which the aging metrics and
\* the details of every aging bottleneck repeat, blanked
WithoutThresholdEcho(res) ==
    LET m == res.metrics
        bs == res.bottlenecks
    IN  [res EXCEPT
            !.metrics = [m EXCEPT !.aging = [m.aging EXCEPT !.aging_threshold = 0]],
            !.bottlenecks =
                [i \in 1..Len(bs) |->
                    IF bs[i].type = "aging_task"
                    THEN [bs[i] EXCEPT !.details =
                             [bs[i].details EXCEPT !.aging_threshold = 0]]
                    ELSE bs[i]]]

AsReturned(res) == res

DueSoonCounters(m) ==
    [o \in DOMAIN m.owner_load.owner_stats |-> m.owner_load.owner_stats[o].due_soon]

FlaggedAging(m) == m.aging.aging_tasks

\* the run at hand read day d for the owner loads, and the same run under
\* the settings other returns the same results, compared through view
SameResults(mine, theirs, view(_)) ==
    \E cycles \in circular_deps(graph) :
       \E answer \in IF llm = "model" THEN ModelAnswers ELSE {<<>>} :
          /\ Observed = ResultsOf(mine, cycles, answer)
          /\ view(Observed) = view(ResultsOf(theirs, cycles, answer))

MetricsUnder(s, d) == compute_metrics(graph, rows, s, <<d, today>>).val

\* a setting changes the results only through what it is said to affect;
\* view is how the results of a changed aging threshold are compared
SettingsInfluence(view(_)) ==
    pc = "returned" =>
      \A other \in SettingsChoices, d \in {today - 1, today} :
         metrics = MetricsUnder(settings, d) =>
            /\ DiffersOnlyIn(settings, other, "owner_load_threshold") =>
                  SameResults(metrics, MetricsUnder(other, d), AsReturned)
            /\ (/\ DiffersOnlyIn(settings, other, "due_soon_days")
                /\ DueSoonCounters(metrics) = DueSoonCounters(MetricsUnder(other, d))) =>
                  SameResults(metrics, MetricsUnder(other, d), AsReturned)
            /\ (/\ DiffersOnlyIn(settings, other, "aging_threshold")
                /\ FlaggedAging(metrics) = FlaggedAging(MetricsUnder(other, d))) =>
                  SameResults(metrics, MetricsUnder(other, d), view)

\* C18 as stated: for the same task list and the same now, two runs whose
\* settings differ only in owner_load_threshold return identical metrics,
\* bottlenecks, risk entries and recommendation groups; so do two runs that
\* differ only in due_soon_days and count the same tasks as due soon, and
\* two runs that differ only in aging_threshold and flag the same tasks.
C18_SettingsOnlyThroughCountersAndFlags == SettingsInfluence(AsReturned)

\* C18: as above, except that two runs differing only in aging_threshold
\* that flag the same tasks still differ in the threshold value that the
\* aging metrics and each aging bottleneck's details repeat.
C18_SettingsOnlyThroughCountersFlagsAndEcho == SettingsInfluence(WithoutThresholdEcho)

\* a returned run with a task counted due soon and an aging bottleneck, for
\* which another load threshold, another due-soon window counting the same
\* tasks and another aging threshold flagging the same tasks all exist
C18_Witness ==
    /\ pc = "returned"
    /\ \E o \in DOMAIN DueSoonCounters(metrics) : DueSoonCounters(metrics)[o] > 0
    /\ \E i \in 1..Len(bottlenecks) : bottlenecks[i].type = "aging_task"
    /\ \E other \in SettingsChoices :
          DiffersOnlyIn(settings, other, "owner_load_threshold")
    /\ \E other \in SettingsChoices :
          /\ DiffersOnlyIn(settings, other, "due_soon_days")
          /\ DueSoonCounters(metrics) = DueSoonCounters(MetricsUnder(other, today))
    /\ \E other \in SettingsChoices :
          /\ DiffersOnlyIn(settings, other, "aging_threshold")
          /\ FlaggedAging(metrics) = FlaggedAging(MetricsUnder(other, today))

\* C19: every group generate_recommendations returns holds at least one and
\* at most three recommendations, whatever the type of its bottleneck and
\* whatever the text generator did.
C19_GroupsHoldOneToThree ==
    Recommended =>
       \A i \in 1..Len(recommendations) :
          Len(recommendations[i].recommendations) \in 1..3

\* C20: generate_recommendations returns one group per bottleneck, in the
\* order of the bottlenecks, the i-th group carrying the task_id, type and
\* score of the i-th bottleneck; bottlenecks on the same task are not merged.
C20_OneGroupPerBottleneckInOrder ==
    Recommended =>
       /\ Len(recommendations) = Len(bottlenecks)
       /\ \A i \in 1..Len(recommendations) :
             /\ recommendations[i].task_id = bottlenecks[i].task_id
             /\ recommendations[i].bottleneck_type = bottlenecks[i].type
             /\ recommendations[i].bottleneck_score = bottlenecks[i].score

\* two bottlenecks of different types on one task, each with its own group
C20_Witness ==
    /\ Recommended
    /\ \E i, j \in 1..Len(recommendations) :
          /\ i < j
          /\ bottlenecks[i].task_id = bottlenecks[j].task_id
          /\ bottlenecks[i].type # bottlenecks[j].type
          /\ recommendations[i].bottleneck_type = bottlenecks[i].type
          /\ recommendations[j].bottleneck_type = bottlenecks[j].type

\* the betweenness values the detector reads from the metrics bundle
BetweennessRead == Get(Get(metrics, "centrality", EmptyDict), "betweenness", EmptyDict)

MaxBetweennessRead ==
    LET ids == SelectSeq(graph.nodes, LAMBDA v : v \in DOMAIN BetweennessRead)
    IN  IF Len(ids) = 0 THEN RZero
        ELSE RMaxSeq([i \in 1..Len(ids) |-> BetweennessRead[ids[i]]])

EmittedAs(type, id) ==
    \E i \in 1..Len(bottlenecks) :
        bottlenecks[i].type = type /\ bottlenecks[i].task_id = id

\* C21: a task is emitted as high_betweenness exactly when the maximum
\* betweenness is positive and the task's betweenness is at least 70% of
\* it, with score value/max; when the maximum is 0 no task is emitted.
C21_HighBetweennessAtLeast70PercentOfPositiveMax ==
    Detected =>
       /\ \A v \in DOMAIN BetweennessRead :
             EmittedAs("high_betweenness", v) <=>
                /\ RLt(RZero, MaxBetweennessRead)
                /\ RLe(RMul(MaxBetweennessRead, R(7, 10)), BetweennessRead[v])
       /\ \A i \in 1..Len(bottlenecks) :
             bottlenecks[i].type = "high_betweenness" =>
                /\ bottlenecks[i].task_id \in DOMAIN BetweennessRead
                /\ RLt(RZero, MaxBetweennessRead)
                /\ bottlenecks[i].score =
                      RDiv(BetweennessRead[bottlenecks[i].task_id], MaxBetweennessRead)

CentralityRead == Get(metrics, "centrality", EmptyDict)

\* C22: for a graph with at least one node and no edge the centrality group
\* of the bundle holds, for every node, in-degree, out-degree and their
\* normalized variants, all equal to 0.
C22_NoEdgeCentralityAllZero ==
    (MetricsComputed /\ Len(graph.nodes) > 0 /\ graph.edges = {}) =>
       /\ {"in_degree", "out_degree", "in_degree_norm", "out_degree_norm"}
             \subseteq DOMAIN CentralityRead
       /\ \A v \in Nodes(graph) :
             /\ CentralityRead.in_degree[v] = 0
             /\ CentralityRead.out_degree[v] = 0
             /\ CentralityRead.in_degree_norm[v] = RZero
             /\ CentralityRead.out_degree_norm[v] = RZero

MetricGroups == {"basic", "centrality", "owner_load", "aging", "dependencies"}

\* C23: whichever metric group's computation throws, compute_metrics is not
\* aborted and the graph is not discarded: after the build stage of a run
\* on a non-empty task list the graph is the one built from the rows and
\* the bundle holds all five groups (the failed one empty or zero).
C23_GroupFailureContained ==
    (HasRun("build_graph") /\ rows # <<>>) =>
       /\ ~RaisedIn("build_graph")
       /\ graph = build_graph(rows)
       /\ DOMAIN metrics = MetricGroups

GraphBuilt == pc # "build_graph" /\ graph.built

TaskIds == {rows[i].task_id : i \in 1..Len(rows)}

\* task t lists d among its dependency_ids
DependsOn(t, d) ==
    \E i \in 1..Len(rows) :
        rows[i].task_id = t /\ d \in Range(rows[i].dependency_ids)

\* C24: the graph build_graph returns has the task ids as nodes, one node
\* per task when the ids are distinct, and the edge d -> t exactly when t
\* lists d as a dependency and d is the id of another task: no edge for an
\* id naming no task, no self-loop, no endpoint outside the task set.
C24_EdgesFromOtherTasksOnly ==
    GraphBuilt =>
       /\ Range(graph.nodes) = TaskIds
       /\ Cardinality(TaskIds) = Len(rows) => Len(graph.nodes) = Len(rows)
       /\ graph.edges \subseteq TaskIds \X TaskIds
       /\ \A d, t \in TaskIds :
             <<d, t>> \in graph.edges <=> (DependsOn(t, d) /\ d # t)

\* the transitive ancestors of a task whose status is one of the given ones
AncestorsWithStatus(id, statuses) ==
    {u \in ancestors(graph, id) :
        \E i \in 1..Len(rows) : rows[i].task_id = u /\ task_lookup(rows)[u].status \in statuses}

DepthRiskCounting(id, statuses) ==
    LET ancestor_count == Cardinality(ancestors(graph, id))
        counted == Cardinality(AncestorsWithStatus(id, statuses))
    IN  RMin(ROne,
             RAdd(RMin(R(ancestor_count, 5), ROne),
                  RMul(R(1, 2),
                       RMin(R(counted, IF ancestor_count > 1 THEN ancestor_count ELSE 1),
                            ROne))))

\* C25: the dependency_depth factor of every scored task is
\* min(1, min(ancestors/5, 1) + 0.5 * min(blocked ancestors / max(ancestors, 1), 1)),
\* the blocked ancestors being the transitive ancestors of status blocked.
C25_DepthRiskCountsBlockedAncestors ==
    pc = "returned" =>
        \A i \in 1..Len(risk_factors) :
            RLe(risk_factors[i].factors.dependency_depth,
                DepthRiskCounting(risk_factors[i].task_id, {"blocked"}))
            /\ RLe(DepthRiskCounting(risk_factors[i].task_id, {"blocked"}),
                   risk_factors[i].factors.dependency_depth)

LoadScoresRead == Get(Get(metrics, "owner_load", EmptyDict), "load_scores", EmptyDict)

OverloadGroups ==
    {i \in 1..Len(recommendations) :
        recommendations[i].bottleneck_type = "overloaded_owner"}

RuleBasedOnly == pc \in {"forecast_risks", "returned"} /\ llm = "no_module"

\* the other owners whose load is at most 70% of this owner's load
AtMost70PercentOf(owner) ==
    {o \in DOMAIN LoadScoresRead \ {owner} :
        RLe(LoadScoresRead[o], RMul(R(7, 10), LoadScoresRead[owner]))}

\* the other owners whose load is under 70% of this owner's load
Under70PercentOf(owner) ==
    {o \in DOMAIN LoadScoresRead \ {owner} :
        RLt(LoadScoresRead[o], RMul(R(7, 10), LoadScoresRead[owner]))}

TypesOf(group) == [k \in 1..Len(group.recommendations) |-> group.recommendations[k].type]

\* the recommendation types a task of this effort and priority gets when the
\* candidates for a reassignment are these
OverloadTypes(candidates, task) ==
    (IF candidates # {} THEN <<"reassign">> ELSE <<>>)
    \o (IF task.effort >= 4 THEN <<"split_task">> ELSE <<>>)
    \o (IF task.priority = "high" THEN <<"escalate">> ELSE <<>>)

OverloadRuleWith(Candidates(_)) ==
    RuleBasedOnly =>
        \A i \in OverloadGroups :
            LET group == recommendations[i]
                task == task_lookup(rows)[group.task_id]
                candidates == Candidates(task.owner)
            IN  /\ TypesOf(group) = OverloadTypes(candidates, task)
                /\ candidates # {} =>
                      /\ group.recommendations[1].title[2] \in candidates
                      /\ \A o \in candidates :
                            RLe(LoadScoresRead[group.recommendations[1].title[2]],
                                LoadScoresRead[o])

\* C26: for an overloaded_owner bottleneck the rule recommends a reassignment
\* exactly when another owner's load is at most 70% of the task owner's load
\* (70% itself included), to a lowest-loaded such owner, then a split exactly
\* when the effort is at least 4, then an escalation exactly when the
\* priority is high.
C26_ReassignWhenAnotherOwnerAtMost70Percent == OverloadRuleWith(AtMost70PercentOf)

BuildFailedOrSkipped == HasRun("build_graph") /\ (RaisedIn("build_graph") \/ rows = <<>>)

\* C27: in a run of the workflow recommendations exist only with bottlenecks;
\* bottlenecks or forecast risks exist only with a graph that was built and
\* with rows; and after a build stage that failed or was skipped the
\* bottlenecks, the recommendations and the risks are empty.
C27_ResultsOnlyFromBuiltGraph ==
    /\ recommendations # <<>> => bottlenecks # <<>>
    /\ (bottlenecks # <<>> \/ risk_forecast # <<>>) => (graph.built /\ rows # <<>>)
    /\ BuildFailedOrSkipped =>
          (bottlenecks = <<>> /\ recommendations = <<>> /\ risk_forecast = <<>>)

C27_Witness ==
    /\ WorkflowReturned
    /\ RaisedIn("build_graph")
    /\ rows # <<>>
    /\ ~graph.built
    /\ bottlenecks = <<>> /\ recommendations = <<>> /\ risk_forecast = <<>>

SaveRunFailed == pc \in {"save_run_raised", "save_run_raised_unbound"}

\* the one database of the run before save_run was called
DbBeforeSave == IF db.runs # <<>> /\ db.runs[1] = PriorDb.runs[1] THEN PriorDb ELSE EmptyDb

\* C28: when a step of save_run fails, opening the connection or an insert,
\* it is the error of that step that leaves save_run, no row of the run is
\* in any table, and the rows of the runs stored before are as they were.
C28_FailedSaveReraisesAndLeavesNoRow ==
    SaveRunFailed => (pc = "save_run_raised" /\ db = DbBeforeSave)

\* the reassign recommendations of a group
Reassignments(group) == SelectSeq(group.recommendations, LAMBDA r : r.type = "reassign")

\* C29: a reassign recommendation of an overloaded_owner bottleneck names an
\* owner other than the task's owner, of strictly smaller load score; there
\* is none when the task owner's load score is 0 or when the task's owner is
\* the only owner.
C29_ReassignTargetIsAnotherLessLoadedOwner ==
    pc \in {"forecast_risks", "returned"} =>
        \A i \in OverloadGroups :
            LET group == recommendations[i]
                owner == task_lookup(rows)[group.task_id].owner
            IN  /\ \A k \in 1..Len(Reassignments(group)) :
                      LET target == Reassignments(group)[k].title[2]
                      IN  /\ target # owner
                          /\ target \in DOMAIN LoadScoresRead
                          /\ RLt(LoadScoresRead[target], LoadScoresRead[owner])
                /\ (LoadScoresRead[owner] = RZero \/ DOMAIN LoadScoresRead = {owner}) =>
                      Reassignments(group) = <<>>

\* a reassignment away from the most loaded of three owners, and in another
\* call none for a task whose owner has no load
C29_Witness ==
    /\ pc = "forecast_risks"
    /\ Cardinality(DOMAIN LoadScoresRead) = 3
    /\ \E i \in OverloadGroups :
          /\ Reassignments(recommendations[i]) # <<>>
          /\ recommendations[i].owner = "bob"
          /\ Reassignments(recommendations[i])[1].title[2] = "carol"
          /\ RLt(RZero, LoadScoresRead["carol"])
          /\ RLt(LoadScoresRead["carol"], LoadScoresRead["alice"])

OwnersRead == Get(Get(metrics, "owner_load", EmptyDict), "owners", <<>>)

LoadsRead == [i \in 1..Len(OwnersRead) |-> LoadScoresRead[OwnersRead[i]]]

\* max(1.5 * average load, 0.7 * max load)
InclusionThreshold ==
    RMax(RMul(R(3, 2), RDiv(RSum(LoadsRead), RInt(Len(OwnersRead)))),
         RMul(R(7, 10), RMaxSeq(LoadsRead)))

EmittedOverloads == SelectSeq(emitted, LAMBDA b : b.type = "overloaded_owner")

\* C30: every overloaded_owner bottleneck the detector emits is on a task of
\* an owner whose load score is positive and at least
\* max(1.5 * average load, 0.7 * max load), and its score is above 0.3 and at
\* most 1; none is emitted when every load score is 0 or when there is a
\* single owner.
C30_OverloadOnlyAboveThreshold ==
    (pc = "generate_recommendations" /\ OwnersRead # <<>>) =>
        /\ \A i \in 1..Len(EmittedOverloads) :
              LET b == EmittedOverloads[i]
              IN  /\ RLt(RZero, LoadScoresRead[b.owner])
                  /\ RLe(InclusionThreshold, LoadScoresRead[b.owner])
                  /\ RLt(R(3, 10), b.score)
                  /\ RLe(b.score, ROne)
        /\ (\A i \in 1..Len(LoadsRead) : LoadsRead[i] = RZero) => EmittedOverloads = <<>>
        /\ Len(OwnersRead) = 1 => EmittedOverloads = <<>>
        /\ \A i \in 1..Len(bottlenecks) :
              bottlenecks[i].type = "overloaded_owner" =>
                 bottlenecks[i] \in Range(EmittedOverloads)

\* the two tasks of the more loaded of two owners are emitted, one with a
\* score under 1 and one with the score 1, and no task of the other owner
C30_Witness ==
    /\ pc = "generate_recommendations"
    /\ Len(OwnersRead) = 2
    /\ \E i \in 1..Len(EmittedOverloads) : RLt(EmittedOverloads[i].score, ROne)
    /\ \E i \in 1..Len(EmittedOverloads) : EmittedOverloads[i].score = ROne
    /\ \A i \in 1..Len(EmittedOverloads) : EmittedOverloads[i].owner = "bob"

====
